---- MODULE Spec2Model ----
(***************************************************************************)
(* The world tick engine of src/src/World.cpp: the tick driver             *)
(* (World::turntheworld), the player pass (World::checkPlayers), the       *)
(* monster pass (World::checkMonsters) and the NPC pass (World::checkNPC). *)
(* The simulation thread is one process; its position is pc.  The passes   *)
(* are stepped one visited character at a time, so that what happens       *)
(* during an iteration and what happens after it are different states.     *)
(***************************************************************************)
EXTENDS Integers, Sequences, FiniteSets, TLC

\* ------------------------------------------------------------------ bounds
NSavers == 3           \* players of the save scenario
NLeavers == 2          \* players of the logout scenario
MaxQuanta == 25        \* steady clock horizon, in quanta of 20 ms
MaxNow == 1            \* wall clock horizon, in seconds
MaxPoints == 2         \* cap of the AP and FP reservoirs
NMonsters == 2         \* monster objects
NNpcs == 1             \* NPC objects
MaxX == 4              \* the map is 0..MaxX by 0..MaxY
MaxY == 2
MaxPasses == 2         \* ticks of the logout scenario
NWanderers == 1        \* monsters of the wander scenario
MaxRounds == 2         \* ticks of the monster scenarios
MaxTicks == 3          \* ticks of the save scenario
MaxDays == 1           \* in-game days since the birth time in the scheduler scenario
MaxNameLen == 2        \* length of a handler's name in the command scenario
MaxArgLen == 2         \* length of an argument in the command scenario
NProducers == 2        \* network threads of the queue scenario
MaxPushes == 3         \* calls of addPlayerImmediateActionQueue in the queue scenario
MaxReloads == 1        \* calls of initRespawns in the reload scenario

\* ------------------------------------------------------- program constants
MIN_AP_UPDATE == 100
CLIENT_TIMEOUT == 1
PLAYER_SAVE_INTERVAL == 2
MAX_ACT_RANGE == 3
MONSTERVIEWRANGE == 2
NP_WALK_COST == 1
MAXHPS == 2
secondsInHour == 3600
illarionTimeFactor == 3
minDirection == 0
maxDirection == 7

PlayerIds == 1..(IF NSavers > NLeavers THEN NSavers ELSE NLeavers)
MonsterIds == 1..NMonsters
NpcIds == 1..NNpcs
Positions == (0..MaxX) \X (0..MaxY)
NoPos == <<-1, -1>>

VARIABLES
    \* World (tick driver)
    elapsed,        \* steady_clock::now() - startTime, in ms
    usedAP,         \* World::usedAP
    ap,             \* World::ap
    pc,             \* position of the simulation thread: "idle", "call", "loop", "return",
                    \* and "forgotten", "emptied" inside initRespawns
    passIdx,        \* the pass turntheworld is at (index into PassOrder; 0: none)
    passLog,        \* passes started by the current invocation of turntheworld
    granted,        \* sum of the ap handed to the passes so far
    callElapsed,    \* elapsed at the latest invocation of turntheworld (-1: none)
    usedBefore,     \* usedAP when the latest invocation began
    tickAp,         \* ap as computed by the latest invocation
    scn,            \* the grants of the invocations so far, while they follow ScenarioTimes
    ticks,          \* invocations of turntheworld that ran the passes
    \* wall clock
    now,            \* time(), in seconds
    \* player population
    Players,        \* World::Players (ids)
    player,         \* the Player objects
    logOutPlayers,  \* PlayerManager::get().getLogOutPlayers()
    shutdownSent,   \* connections with a LogOut(UNSTABLECONNECTION) frame scheduled
    \* locals of checkPlayers
    passNow, savedOnePlayer, lostPlayers, iter, idx,
    \* what the current (or latest) player pass did
    credited, drained, savedLog, seenOffline, seenTimedOut, listBroadcast, passStart,
    saveStart,      \* lastsavetime of each player when the pass began
    \* monster population
    Monsters,       \* World::Monsters (ids)
    monster,        \* the Monster objects
    newMonsters,    \* World::newMonsters
    SpawnList,      \* World::SpawnList (ids of the loaded spawn points)
    spawnEnabled,   \* World::isSpawnEnabled()
    \* locals of checkMonsters
    deadMonsters,
    \* what the current (or latest) monster pass did
    monStart, visitedM, spawnedNow, killedM, insertedM, lastVisit,
    \* NPC population
    Npc,            \* World::Npc (ids)
    npc,            \* the NPC objects
    LostNpcs,       \* the NPCs deleteAllLostNPC is to delete
    npcAp,          \* the ap the latest NPC pass credited (0: none yet)
    lastNpcVisit,   \* what the latest visit of an NPC did
    \* immediate-command queue
    immediatePlayerCommands,        \* World::immediatePlayerCommands (handles)
    immediatePlayerCommandsMutex,   \* the thread that owns the mutex
    pcCmd,          \* position of the simulation thread in checkPlayerImmediateCommands
    cmdPlayer,      \* its local `player` (0: none)
    pcAdd,          \* position of each network thread in addPlayerImmediateActionQueue
    pushed,         \* the handles pushed so far, in the order of the pushes
    popLog,         \* the handles popped so far, each with `online` as it was then
    workLog,        \* the tests of line 177 so far: `online` as read, and the call
    \* executeUserCommand
    commands,       \* the keys of the CommandMap passed in (a handler is named by its key)
    cmdName,        \* the name the input was composed of
    cmdArg,         \* the argument the input was composed of
    input,          \* the input string
    found,          \* the value returned ("none": no call has returned)
    called,         \* the handlers invoked by the call, with their arguments
    \* scheduler
    clocks,         \* time(), tm_isdst, system_clock::now() and steady_clock::now(), in s
    illarionBirthTime,  \* the Unix time at which the in-game calendar begins
    updateIgDay,    \* the task update_ig_day: whether it is registered, and its first fire
    \* initRespawns
    spawnEpoch,     \* how often SpawnList has been cleared: the generation of its elements
    spawnBorn       \* per monster, the generation of the spawn point it was given

vars == <<elapsed, usedAP, ap, pc, passIdx, passLog, granted, callElapsed, usedBefore,
          tickAp, scn, ticks, now,
          Players, player, logOutPlayers, shutdownSent,
          passNow, savedOnePlayer, lostPlayers, iter, idx,
          credited, drained, savedLog, seenOffline, seenTimedOut, listBroadcast,
          passStart, saveStart,
          Monsters, monster, newMonsters, SpawnList, spawnEnabled, deadMonsters,
          monStart, visitedM, spawnedNow, killedM, insertedM, lastVisit,
          Npc, npc, LostNpcs, npcAp, lastNpcVisit,
          immediatePlayerCommands, immediatePlayerCommandsMutex, pcCmd, cmdPlayer,
          pcAdd, pushed, popLog, workLog,
          commands, cmdName, cmdArg, input, found, called,
          clocks, illarionBirthTime, updateIgDay,
          spawnEpoch, spawnBorn>>

tickVars == <<usedAP, ap, passLog, granted, callElapsed, usedBefore, tickAp, scn, ticks>>
playerVars == <<Players, player, logOutPlayers, shutdownSent>>
playerLocals == <<passNow, savedOnePlayer, lostPlayers>>
monsterVars == <<Monsters, monster, newMonsters, SpawnList, spawnEnabled>>
monsterLogs == <<deadMonsters, monStart, visitedM, spawnedNow, killedM, insertedM, lastVisit>>
npcVars == <<Npc, npc, LostNpcs, npcAp, lastNpcVisit>>
queueVars == <<immediatePlayerCommands, immediatePlayerCommandsMutex, pcCmd, cmdPlayer,
               pcAdd, pushed, popLog, workLog>>
\* What the tick leaves alone.
commandVars == <<commands, cmdName, cmdArg, input, found, called>>
schedulerVars == <<clocks, illarionBirthTime, updateIgDay>>
respawnVars == <<spawnEpoch, spawnBorn>>
extVars == <<queueVars, commandVars, schedulerVars, respawnVars>>
playerLogs == <<credited, drained, savedLog, seenOffline, seenTimedOut, listBroadcast,
                passStart, saveStart>>

\* ----------------------------------------------------------------- helpers
Min(a, b) == IF a < b THEN a ELSE b

RECURSIVE SortedSeq(_)
\* The keys of a population in iteration order.
SortedSeq(S) ==
    IF S = {} THEN <<>>
    ELSE LET m == CHOOSE x \in S : \A y \in S : x <= y
         IN <<m>> \o SortedSeq(S \ {m})

Range(s) == {s[i] : i \in 1..Len(s)}

\* Character::increaseActionPoints / increaseFightPoints: a capped reservoir.
IncreasePoints(v, d) == Min(v + d, MaxPoints)

\* ------------------------------------------------------------ tick driver
\* Mutant: the quotient rounded up.
ComputeAPRoundedUp(e, u) == ((e + MIN_AP_UPDATE - 1) \div MIN_AP_UPDATE) - u

\* turntheworld, line 97: ap = static_cast<int>(elapsed / MIN_AP_UPDATE - usedAP)
ComputeAP(e, u) == (e \div MIN_AP_UPDATE) - u

\* Mutant: the passes run when ap is 0 too.
TickRunsOnZero(a) == a >= 0

\* turntheworld, line 99: if (ap > 0)
TickRuns(a) == a > 0

\* Mutant: the ledger counts invocations, not action points.
UsedAPPlusOne(u, a) == u + 1

\* turntheworld, line 100: usedAP += ap
UsedAPAfter(u, a) == u + a

\* The invocation times of the stall scenario, in ms.
ScenarioTimes == <<0, 80, 220, 500>>
OffScenario == <<-1>>

\* The scenario's record after an invocation at elapsed time e that computed a.
ScenarioAfter(sc, e, a) ==
    IF sc # OffScenario /\ Len(sc) < Len(ScenarioTimes) /\ e = ScenarioTimes[Len(sc) + 1]
    THEN Append(sc, a)
    ELSE OffScenario

\* Mutant: the monster pass is called first.
PassOrderMonstersFirst == <<"monsters", "players", "npcs">>

\* turntheworld, lines 102-104: the calls, in the order they are written
PassOrder == <<"players", "monsters", "npcs">>

\* The pass turntheworld is calling or running.
CurPass == IF passIdx = 0 THEN "none" ELSE PassOrder[passIdx]

\* A pass returns to turntheworld: the next call, or the end of the invocation.
ReturnFromPass ==
    IF passIdx < Len(PassOrder)
    THEN /\ passIdx' = passIdx + 1
         /\ pc' = "call"
    ELSE /\ passIdx' = 0
         /\ pc' = "return"

turntheworld ==
    /\ pc = "idle"
    /\ pcCmd = "idle"     \* the simulation thread is not in checkPlayerImmediateCommands
    /\ UNCHANGED extVars
    /\ LET a == ComputeAP(elapsed, usedAP)
       IN /\ ap' = a
          /\ tickAp' = a
          /\ callElapsed' = elapsed
          /\ scn' = ScenarioAfter(scn, elapsed, a)
          /\ usedBefore' = usedAP
          /\ passLog' = <<>>
          /\ IF TickRuns(a)
             THEN /\ usedAP' = UsedAPAfter(usedAP, a)
                  /\ granted' = granted + a
                  /\ ticks' = ticks + 1
                  /\ passIdx' = 1
                  /\ pc' = "call"
             ELSE /\ UNCHANGED <<usedAP, granted, ticks, passIdx, pc>>
    /\ UNCHANGED <<elapsed, now>>
    /\ UNCHANGED <<playerVars, playerLocals, playerLogs, iter, idx>>
    /\ UNCHANGED <<monsterVars, monsterLogs, npcVars>>

\* ------------------------------------------------------------ player pass
\* Mutant: the window has no upper end.
InKeepaliveWindowOpen(temptime) == temptime >= 0

\* checkPlayers, line 121: (temptime >= 0) && (temptime <= CLIENT_TIMEOUT)
InKeepaliveWindow(temptime) == temptime >= 0 /\ temptime <= CLIENT_TIMEOUT

\* Mutant: the pass's save budget is not consulted.
SaveDueIgnoringBudget(saved, timeSinceSave) == timeSinceSave >= PLAYER_SAVE_INTERVAL

\* Mutant: a save is due only after more than the interval.
SaveDueStrict(saved, timeSinceSave) == ~saved /\ timeSinceSave > PLAYER_SAVE_INTERVAL

\* checkPlayers, line 130: !savedOnePlayer && timeSinceSave >= PLAYER_SAVE_INTERVAL
SaveDue(saved, timeSinceSave) == ~saved /\ timeSinceSave >= PLAYER_SAVE_INTERVAL

\* Player::save(): persists the player and stamps lastsavetime.
Save(pl, t) == [pl EXCEPT !.lastsavetime = t]

\* checkPlayers, lines 109-113, and the start of Players.for_each
checkPlayersBegin ==
    /\ pc = "call" /\ CurPass = "players"
    /\ UNCHANGED extVars
    /\ passLog' = Append(passLog, "players")
    /\ passNow' = now
    /\ savedOnePlayer' = FALSE
    /\ lostPlayers' = <<>>
    /\ iter' = SortedSeq(Players)
    /\ idx' = 1
    /\ pc' = "loop"
    /\ credited' = {} /\ drained' = {} /\ savedLog' = <<>>
    /\ seenOffline' = {} /\ seenTimedOut' = {} /\ listBroadcast' = FALSE
    /\ passStart' = Players
    /\ saveStart' = [p \in PlayerIds |-> player[p].lastsavetime]
    /\ UNCHANGED <<elapsed, now, usedAP, ap, passIdx, granted, callElapsed, usedBefore,
                   tickAp, scn, ticks, playerVars>>
    /\ UNCHANGED <<monsterVars, monsterLogs, npcVars>>

\* checkPlayers, lines 118-134: the visited player is online and within the window
VisitActive(p) ==
    LET pl == player[p]
        due == SaveDue(savedOnePlayer, passNow - pl.lastsavetime)
        pl1 == [pl EXCEPT !.ap = IncreasePoints(pl.ap, ap),
                          !.fp = IncreasePoints(pl.fp, ap)]
    IN /\ credited' = credited \cup {p}
       /\ drained' = drained \cup {p}
       /\ player' = [player EXCEPT ![p] = IF due THEN Save(pl1, passNow) ELSE pl1]
       /\ savedLog' = IF due THEN Append(savedLog, p) ELSE savedLog
       /\ savedOnePlayer' = (savedOnePlayer \/ due)
       /\ UNCHANGED <<shutdownSent, logOutPlayers, lostPlayers, seenOffline, seenTimedOut>>

\* checkPlayers, lines 136-140: the visited player is online and timed out
VisitTimedOut(p) ==
    /\ shutdownSent' = shutdownSent \cup {p}
    /\ seenTimedOut' = seenTimedOut \cup {p}
    /\ UNCHANGED <<player, logOutPlayers, lostPlayers, savedOnePlayer, credited, drained,
                   savedLog, seenOffline>>

\* checkPlayers, lines 141-158: the visited player is offline
VisitOffline(p) ==
    /\ logOutPlayers' = Append(logOutPlayers, p)
    /\ lostPlayers' = Append(lostPlayers, p)
    /\ seenOffline' = seenOffline \cup {p}
    /\ UNCHANGED <<player, shutdownSent, savedOnePlayer, credited, drained, savedLog,
                   seenTimedOut>>

\* checkPlayers, lines 115-159: one call of the visitor of Players.for_each
PlayerVisit ==
    /\ pc = "loop" /\ CurPass = "players" /\ idx <= Len(iter)
    /\ UNCHANGED extVars
    /\ LET p == iter[idx]
       IN IF player[p].online
          THEN IF InKeepaliveWindow(passNow - player[p].lastkeepalive)
               THEN VisitActive(p)
               ELSE VisitTimedOut(p)
          ELSE VisitOffline(p)
    /\ idx' = idx + 1
    /\ UNCHANGED <<elapsed, now, tickVars, pc, passIdx, Players, passNow, iter,
                   listBroadcast, passStart, saveStart>>
    /\ UNCHANGED <<monsterVars, monsterLogs, npcVars>>

\* Mutant: the marked players stay in the population.
EraseNothing(pop, lost) == pop

\* checkPlayers, lines 161-163: the population after the erasures
ErasePlayers(pop, lost) == pop \ Range(lost)

\* checkPlayers, lines 165-167: whether updatePlayerList is called
BroadcastList(lost) == lost # <<>>

\* checkPlayers, lines 161-168: after the iteration
checkPlayersEnd ==
    /\ pc = "loop" /\ CurPass = "players" /\ idx > Len(iter)
    /\ UNCHANGED extVars
    /\ Players' = ErasePlayers(Players, lostPlayers)
    /\ listBroadcast' = BroadcastList(lostPlayers)
    /\ ReturnFromPass
    /\ UNCHANGED <<elapsed, now, tickVars, player, logOutPlayers, shutdownSent,
                   playerLocals, iter, idx, credited, drained, savedLog, seenOffline,
                   seenTimedOut, passStart, saveStart>>
    /\ UNCHANGED <<monsterVars, monsterLogs, npcVars>>

\* ----------------------------------------------------------- monster pass
Abs(n) == IF n < 0 THEN -n ELSE n
Max(a, b) == IF a > b THEN a ELSE b

\* Chebyshev distance: the metric of the range queries and of the spawn range.
Dist(p, q) == Max(Abs(p[1] - q[1]), Abs(p[2] - q[2]))

\* direction: dir_north = 0, clockwise to dir_northwest = 7
dir_north == 0
dir_northeast == 1
dir_east == 2
dir_southeast == 3
dir_south == 4
dir_southwest == 5
dir_west == 6
dir_northwest == 7
Directions == minDirection..maxDirection

\* position::move(dir): north is y - 1, east is x + 1.
MovePos(p, d) ==
    LET dx == IF d \in {dir_northeast, dir_east, dir_southeast} THEN 1
              ELSE IF d \in {dir_southwest, dir_west, dir_northwest} THEN -1 ELSE 0
        dy == IF d \in {dir_southeast, dir_south, dir_southwest} THEN 1
              ELSE IF d \in {dir_northwest, dir_north, dir_northeast} THEN -1 ELSE 0
    IN <<p[1] + dx, p[2] + dy>>

\* The spawn points of the spawnpoint table (spp_x, spp_y, spp_range,
\* spp_spawnrange), each with the type of the monsters it creates.
SpawnRows ==
    <<[pos |-> <<1, 1>>, range |-> 0, spawnRange |-> 1, mtype |-> 1],
      [pos |-> <<1, 1>>, range |-> 1, spawnRange |-> 0, mtype |-> 2]>>
SpawnIds == 1..Len(SpawnRows)

\* The monster definition table: monsterDescriptions->exists(type), [type].script,
\* [type].canselfheal.  A type that is not in the table reads as a default struct.
MonsterDescriptions ==
    <<[exists |-> TRUE,  script |-> TRUE,  canselfheal |-> FALSE],
      [exists |-> TRUE,  script |-> FALSE, canselfheal |-> TRUE],
      [exists |-> FALSE, script |-> FALSE, canselfheal |-> FALSE]>>
MonsterTypes == 1..Len(MonsterDescriptions)

\* Mutant: the direction is kept.
KeepDirection(d) == d

\* checkMonsters, lines 396-423: the switch taken when |xoffs| > range
FlipEastWest(d) ==
    CASE d = dir_northeast -> dir_northwest
      [] d = dir_east -> dir_west
      [] d = dir_southeast -> dir_southwest
      [] d = dir_southwest -> dir_southeast
      [] d = dir_west -> dir_east
      [] d = dir_northwest -> dir_northeast
      [] OTHER -> d

\* Mutant: north becomes south, and nothing else changes.
FlipNorthOnly(d) == IF d = dir_north THEN dir_south ELSE d

\* checkMonsters, lines 427-454: the switch taken when |yoffs| > range
FlipNorthSouth(d) ==
    CASE d = dir_north -> dir_south
      [] d = dir_northeast -> dir_southeast
      [] d = dir_southeast -> dir_northeast
      [] d = dir_south -> dir_north
      [] d = dir_southwest -> dir_northwest
      [] d = dir_northwest -> dir_southwest
      [] OTHER -> d

\* checkMonsters, lines 387-456: the direction of a wander step of a monster at p
\* whose spawn point is at sp with range r, the direction drawn being d
WanderDir(d, p, sp, r) ==
    LET newpos == MovePos(p, d)
        yoffs == sp[2] - newpos[2]
        xoffs == sp[1] - newpos[1]
        d1 == IF Abs(xoffs) > r THEN FlipEastWest(d) ELSE d
    IN IF Abs(yoffs) > r THEN FlipNorthSouth(d1) ELSE d1

\* Character::move(dir): the step is taken when the field exists and is free,
\* and fails otherwise; whether a field of the map is free is left open.
MoveResults(p, d) ==
    {p} \cup (IF MovePos(p, d) \in Positions THEN {MovePos(p, d)} ELSE {})

\* Monster::performStep(target): at most one step, toward the target.
StepResults(p, target) ==
    {p} \cup {q \in Positions : Dist(p, q) = 1 /\ Dist(q, target) < Dist(p, target)}

\* WaypointList::makeMove(): FALSE, or TRUE after at most one step along the route.
RouteResults(p) ==
    {[ok |-> FALSE, pos |-> p]}
    \cup {[ok |-> TRUE, pos |-> q] : q \in {q \in Positions : Dist(p, q) <= 1}}

\* getTargetsInRange, lines 550-562: the live players in range and the live
\* monsters in range that do not stand on pos
getTargetsInRange(pos, radius) ==
    {[type |-> "player", id |-> p, pos |-> player[p].pos] :
        p \in {q \in Players : Dist(player[q].pos, pos) <= radius}}
    \cup
    {[type |-> "monster", id |-> m, pos |-> monster[m].pos] :
        m \in {q \in Monsters : /\ monster[q].alive
                                /\ Dist(monster[q].pos, pos) <= radius
                                /\ monster[q].pos # pos}}

\* isPlayerNearby, lines 242-245
isPlayerNearby(pos) == \E p \in Players : Dist(player[p].pos, pos) <= MAX_ACT_RANGE

\* Mutant: ap is left as the tick driver computed it.
MonsterAPKept(a) == a

\* checkMonsters, lines 258-260: if (ap > 1) --ap
MonsterAP(a) == IF a > 1 THEN a - 1 ELSE a

NoVisit == [id |-> 0, acts |-> {}, from |-> NoPos, drawn |-> -1, used |-> -1]

\* An outcome of a visit: the monster afterwards and what it did.
Outcome(m, acts) == [mon |-> m, acts |-> acts, from |-> NoPos, drawn |-> -1, used |-> -1]

\* checkMonsters, lines 368-463: heal, or a random step kept near the spawn point
RandomOutcomes(m, def, acts) ==
    UNION {
        IF makesRandomStep /\ def.exists /\ def.canselfheal
        THEN {Outcome(m, acts \cup {"heal"})}
        ELSE UNION {
            LET dir == IF m.spawn # 0
                       THEN WanderDir(drawn, m.pos, SpawnRows[m.spawn].pos,
                                      SpawnRows[m.spawn].range)
                       ELSE drawn
            IN {[mon |-> [m EXCEPT !.pos = q,
                                   !.ap = IncreasePoints(m.ap, -NP_WALK_COST)],
                 acts |-> acts \cup {"wander"},
                 from |-> m.pos, drawn |-> drawn, used |-> dir] :
                    q \in MoveResults(m.pos, dir)}
            : drawn \in Directions}
        : makesRandomStep \in BOOLEAN}

\* Mutant: the value the hook returns is ignored.
HookIgnored(ret, done, rest) == rest

\* checkMonsters, lines 313-315 and 351-353: if (hook(monster, target)) return
ReturnIfHook(ret, done, rest) == IF ret THEN done ELSE rest

\* The script's hook is called for a monster m that has done acts, and returns
\* true (the outcome is tagged) or false; rest is what the visit does after it.
HookOutcomes(tag, m, acts, rest) ==
    {[o EXCEPT !.acts = o.acts \cup {tag}]
        : o \in ReturnIfHook(TRUE, {Outcome(m, acts)}, rest)}
    \cup ReturnIfHook(FALSE, {Outcome(m, acts)}, rest)

\* checkMonsters, lines 332-366: no attack happened; look for a target in view
ViewOutcomes(m, def, canAttack, acts) ==
    LET targets == getTargetsInRange(m.pos, MONSTERVIEWRANGE)
    IN IF targets # {} /\ canAttack
       THEN \* setTarget of the script or of the fighting script declines
            RandomOutcomes(m, def, acts)
            \cup UNION {
                LET m2 == [m EXCEPT !.lastTargetSeen = TRUE,
                                    !.lastTargetPosition = t.pos]
                    seen == acts \cup {"targetChar"}
                    hook == seen \cup (IF def.script THEN {"enemyOnSight"} ELSE {})
                    steps == {Outcome([m2 EXCEPT !.pos = q], hook \cup {"step"})
                                : q \in StepResults(m2.pos, t.pos)}
                IN IF def.exists
                   THEN IF def.script
                        THEN HookOutcomes("sightTrue", m2, hook, steps)
                        ELSE steps
                   ELSE RandomOutcomes(m2, def, seen)
                : t \in targets}
       ELSE IF m.lastTargetSeen
            THEN {Outcome([m EXCEPT !.pos = q], acts \cup {"stepToLast"})
                    : q \in StepResults(m.pos, m.lastTargetPosition)}
            ELSE RandomOutcomes(m, def, acts)

\* Mutant: the monster looks for a target in view whether it has attacked or not.
AttackedOrNot(has_attacked, m, def, canAttack, acts) ==
    ViewOutcomes(m, def, canAttack, acts)

\* checkMonsters, line 332: if (!has_attacked) { ... }
UnlessAttacked(has_attacked, m, def, canAttack, acts) ==
    IF has_attacked THEN {Outcome(m, acts)} ELSE ViewOutcomes(m, def, canAttack, acts)

\* Mutant: the flag is left as it is.
KeepTargetSeen(m) == m

\* checkMonsters, lines 281-283: a monster that stands on the position it
\* remembers forgets that it has seen a target
ForgetReachedTarget(m) ==
    IF m.pos = m.lastTargetPosition THEN [m EXCEPT !.lastTargetSeen = FALSE] ELSE m

\* checkMonsters, lines 280-464: the monster is not on a route
NotOnRouteOutcomes(m0, def, canAttack) ==
    LET m == ForgetReachedTarget(m0)
        temp == getTargetsInRange(m.pos, m.range)
    IN IF temp # {} /\ canAttack
       THEN \* no target chosen: has_attacked stays false
            ViewOutcomes(m, def, canAttack, {})
            \cup UNION {
                LET m2 == [m EXCEPT !.enemy = <<t.type, t.id>>,
                                    !.lastTargetPosition = t.pos,
                                    !.lastTargetSeen = TRUE]
                    hook == {"target"}
                            \cup (IF def.exists /\ def.script THEN {"enemyNear"} ELSE {})
                    turned ==
                        \* canFight() and characterAttacks returns true
                        UnlessAttacked(TRUE, m2, def, canAttack,
                                       hook \cup {"turn", "attack", "has_attacked"})
                        \* !canFight()
                        \cup UnlessAttacked(TRUE, m2, def, canAttack,
                                            hook \cup {"turn", "has_attacked"})
                        \* canFight() and characterAttacks returns false
                        \cup UnlessAttacked(FALSE, m2, def, canAttack,
                                            hook \cup {"turn", "attack"})
                IN IF def.exists /\ def.script
                   THEN HookOutcomes("nearTrue", m2, hook, turned)
                   ELSE turned
                : t \in temp}
       ELSE ViewOutcomes(m, def, canAttack, {})

\* checkMonsters, lines 465-522: the monster is on a route
OnRouteOutcomes(m, def) ==
    LET temp == getTargetsInRange(m.pos, m.range)
        temp2 == getTargetsInRange(m.pos, MONSTERVIEWRANGE)
        hooked == def.exists /\ def.script
        near == IF temp # {} /\ hooked THEN {{}, {"enemyNear"}} ELSE {{}}
        sight == IF temp2 # {} /\ hooked THEN {{}, {"enemyOnSight"}} ELSE {{}}
    IN UNION { UNION { UNION {
            IF r.ok
            THEN {Outcome([m EXCEPT !.pos = r.pos], a \cup b \cup {"route"})}
            ELSE {Outcome([m EXCEPT !.onRoute = FALSE],
                          a \cup b \cup (IF hooked THEN {"abortRoute"} ELSE {}))}
            : r \in RouteResults(m.pos)} : b \in sight} : a \in near}

\* Mutant: no monster is left alone.
UnobservedNever(m) == FALSE

\* checkMonsters, line 273: !isPlayerNearby(monster) && !monster.getOnRoute()
Unobserved(m) == ~isPlayerNearby(m.pos) /\ ~m.onRoute

\* checkMonsters, lines 267-523: the visit of a live monster
AliveOutcomes(m0, a) ==
    LET m == [m0 EXCEPT !.ap = IncreasePoints(m0.ap, a),
                        !.fp = IncreasePoints(m0.fp, a)]
        def == MonsterDescriptions[m.mtype]
        acting == IF Unobserved(m)
                  THEN {Outcome(m, {"credit", "asleep"})}
                  ELSE IF m.onRoute
                       THEN OnRouteOutcomes(m, def)
                       ELSE UNION {NotOnRouteOutcomes(m, def, canAttack)
                                     : canAttack \in BOOLEAN}
    IN  \* !canAct()
        {Outcome(m, {"credit"})}
        \cup {[o EXCEPT !.acts = o.acts \cup {"credit", "canAct"}] : o \in acting}

\* SpawnPoint::spawn(): each spawn point may put new monsters, placed within its
\* spawn range and pointing back at it, into newMonsters.
FreshMonster(sp, q, ty) ==
    [alive |-> TRUE, pos |-> q, ap |-> 0, fp |-> 0, spawn |-> sp, range |-> 1,
     lastTargetSeen |-> FALSE, lastTargetPosition |-> NoPos, enemy |-> <<"none", 0>>,
     onRoute |-> FALSE, mtype |-> ty]

\* Mutant: the iteration covers the buffered monsters too.
VisitBufferedToo(pop, new) == pop \cup Range(new)

\* checkMonsters, line 264: Monsters.for_each iterates the population
MonstersToVisit(pop, new) == pop

\* checkMonsters, lines 248-262: the spawn subphase, the decrement of ap, and
\* the start of Monsters.for_each
checkMonstersBegin ==
    /\ pc = "call" /\ CurPass = "monsters"
    /\ UNCHANGED <<queueVars, commandVars, schedulerVars, spawnEpoch>>
    /\ passLog' = Append(passLog, "monsters")
    /\ \/ \* the timer has not run out, spawning is disabled, or nothing is due
          /\ UNCHANGED <<newMonsters, monster, spawnBorn>>
          /\ spawnedNow' = {}
       \/ \* a spawn point creates a monster
          \E sp \in SpawnList, id \in MonsterIds, q \in Positions :
             /\ spawnEnabled
             /\ id \notin Monsters \cup Range(newMonsters)
             /\ Dist(q, SpawnRows[sp].pos) <= SpawnRows[sp].spawnRange
             /\ monster' = [monster EXCEPT
                               ![id] = FreshMonster(sp, q, SpawnRows[sp].mtype)]
             /\ spawnBorn' = [spawnBorn EXCEPT ![id] = spawnEpoch]
             /\ newMonsters' = Append(newMonsters, id)
             /\ spawnedNow' = {id}
    /\ ap' = MonsterAP(ap)
    /\ deadMonsters' = <<>>
    /\ iter' = SortedSeq(MonstersToVisit(Monsters, newMonsters'))
    /\ idx' = 1
    /\ pc' = "loop"
    /\ monStart' = Monsters
    /\ visitedM' = {} /\ killedM' = {} /\ insertedM' = {}
    /\ lastVisit' = NoVisit
    /\ UNCHANGED <<elapsed, now, usedAP, passIdx, granted, callElapsed, usedBefore,
                   tickAp, scn, ticks, Monsters, SpawnList, spawnEnabled>>
    /\ UNCHANGED <<playerVars, playerLocals, playerLogs, npcVars>>

\* checkMonsters, lines 264-527: one call of the visitor of Monsters.for_each
MonsterVisit ==
    /\ pc = "loop" /\ CurPass = "monsters" /\ idx <= Len(iter)
    /\ UNCHANGED extVars
    /\ LET mp == iter[idx]
       IN /\ visitedM' = visitedM \cup {mp}
          /\ IF monster[mp].alive
             THEN /\ \E o \in AliveOutcomes(monster[mp], ap) :
                        /\ monster' = [monster EXCEPT ![mp] = o.mon]
                        /\ lastVisit' = [id |-> mp, acts |-> o.acts, from |-> o.from,
                                         drawn |-> o.drawn, used |-> o.used]
                  /\ UNCHANGED deadMonsters
             ELSE /\ deadMonsters' = Append(deadMonsters, mp)
                  /\ lastVisit' = [NoVisit EXCEPT !.id = mp, !.acts = {"dead"}]
                  /\ UNCHANGED monster
    /\ idx' = idx + 1
    /\ UNCHANGED <<elapsed, now, tickVars, pc, passIdx, iter, Monsters, newMonsters,
                   SpawnList, spawnEnabled, monStart, spawnedNow, killedM, insertedM>>
    /\ UNCHANGED <<playerVars, playerLocals, playerLogs, npcVars>>

\* checkMonsters, lines 529-531: killMonster for each collected monster
KillMonsters(pop, dead) == pop \ Range(dead)

\* checkMonsters, lines 533-545: Monsters.insert for each buffered monster
InsertMonsters(pop, new) == pop \cup Range(new)

\* checkMonsters, lines 529-548: after the iteration
checkMonstersEnd ==
    /\ pc = "loop" /\ CurPass = "monsters" /\ idx > Len(iter)
    /\ UNCHANGED extVars
    /\ Monsters' = InsertMonsters(KillMonsters(Monsters, deadMonsters), newMonsters)
    /\ killedM' = Range(deadMonsters)
    /\ insertedM' = Range(newMonsters)
    /\ newMonsters' = <<>>
    /\ lastVisit' = NoVisit
    /\ ReturnFromPass
    /\ UNCHANGED <<elapsed, now, tickVars, iter, idx, monster, SpawnList, spawnEnabled,
                   deadMonsters, monStart, visitedM, spawnedNow>>
    /\ UNCHANGED <<playerVars, playerLocals, playerLogs, npcVars>>

\* --------------------------------------------------------------- NPC pass
\* checkNPC, line 565, and the start of Npc.for_each
checkNPCBegin ==
    /\ pc = "call" /\ CurPass = "npcs"
    /\ UNCHANGED extVars
    /\ passLog' = Append(passLog, "npcs")
    /\ Npc' = Npc \ LostNpcs
    /\ LostNpcs' = {}
    /\ iter' = SortedSeq(Npc \ LostNpcs)
    /\ idx' = 1
    /\ pc' = "loop"
    /\ npcAp' = ap
    /\ lastNpcVisit' = [id |-> 0, acts |-> {}]
    /\ UNCHANGED <<elapsed, now, usedAP, ap, passIdx, granted, callElapsed, usedBefore,
                   tickAp, scn, ticks, npc>>
    /\ UNCHANGED <<playerVars, playerLocals, playerLogs, monsterVars, monsterLogs>>

\* checkNPC, lines 568-585: the visit of a live NPC
NpcAliveOutcomes(n0, a) ==
    LET n == [n0 EXCEPT !.ap = IncreasePoints(n0.ap, a)]
    IN IF ~isPlayerNearby(n.pos) /\ ~n.onRoute
       THEN {[npc |-> n, acts |-> {"credit", "asleep"}]}
       ELSE \* !canAct() or no script
            {[npc |-> n, acts |-> {"credit"}]}
            \cup (IF n.script
                  THEN IF n.onRoute
                       THEN {IF r.ok
                             THEN [npc |-> [n EXCEPT !.pos = r.pos],
                                   acts |-> {"credit", "nextCycle", "route"}]
                             ELSE [npc |-> [n EXCEPT !.onRoute = FALSE],
                                   acts |-> {"credit", "nextCycle", "abortRoute"}]
                             : r \in RouteResults(n.pos)}
                       ELSE {[npc |-> n, acts |-> {"credit", "nextCycle"}]}
                  ELSE {})

\* Character::increaseAttrib("hitpoints", d): the hitpoints rise by d, up to
\* the maximum.
increaseAttrib(hp, d) == Min(hp + d, MAXHPS)

\* checkNPC, lines 586-589: npc->increaseAttrib("hitpoints", MAXHPS)
Revive(n) == [n EXCEPT !.hp = increaseAttrib(n.hp, MAXHPS)]

\* Mutant: nothing is done for a dead NPC.
NpcDeadIgnored(n0) == [npc |-> n0, acts |-> {}]

\* checkNPC, lines 586-589: the visit of a dead NPC
NpcDeadOutcome(n0) == [npc |-> Revive(n0), acts |-> {"revive", "spin"}]

\* checkNPC, lines 567-590: one call of the visitor of Npc.for_each
NPCVisit ==
    /\ pc = "loop" /\ CurPass = "npcs" /\ idx <= Len(iter)
    /\ UNCHANGED extVars
    /\ LET n == iter[idx]
       IN IF npc[n].hp > 0
          THEN \E o \in NpcAliveOutcomes(npc[n], ap) :
                  /\ npc' = [npc EXCEPT ![n] = o.npc]
                  /\ lastNpcVisit' = [id |-> n, acts |-> o.acts]
          ELSE /\ npc' = [npc EXCEPT ![n] = NpcDeadOutcome(npc[n]).npc]
               /\ lastNpcVisit' = [id |-> n, acts |-> NpcDeadOutcome(npc[n]).acts]
    /\ idx' = idx + 1
    /\ UNCHANGED <<elapsed, now, tickVars, pc, passIdx, iter, Npc, LostNpcs, npcAp>>
    /\ UNCHANGED <<playerVars, playerLocals, playerLogs, monsterVars, monsterLogs>>

\* checkNPC, line 591: the pass returns
checkNPCEnd ==
    /\ pc = "loop" /\ CurPass = "npcs" /\ idx > Len(iter)
    /\ UNCHANGED extVars
    /\ ReturnFromPass
    /\ UNCHANGED <<elapsed, now, tickVars, iter, idx, npcVars>>
    /\ UNCHANGED <<playerVars, playerLocals, playerLogs, monsterVars, monsterLogs>>

\* No invocation of turntheworld is running: the locals of the passes do not
\* exist and nothing is recorded of them.
NoInvocation ==
    /\ passLog = <<>>
    /\ passNow = 0 /\ savedOnePlayer = FALSE /\ lostPlayers = <<>>
    /\ iter = <<>> /\ idx = 1
    /\ credited = {} /\ drained = {} /\ savedLog = <<>>
    /\ seenOffline = {} /\ seenTimedOut = {} /\ listBroadcast = FALSE
    /\ passStart = {} /\ saveStart = [p \in PlayerIds |-> 0]
    /\ deadMonsters = <<>>
    /\ monStart = {} /\ visitedM = {} /\ spawnedNow = {} /\ killedM = {}
    /\ insertedM = {} /\ lastVisit = NoVisit
    /\ npcAp = 0 /\ lastNpcVisit = [id |-> 0, acts |-> {}]

\* turntheworld, line 106: the invocation returns
turntheworldReturn ==
    /\ pc = "return"
    /\ UNCHANGED extVars
    /\ pc' = "idle"
    /\ passLog' = <<>>
    /\ passNow' = 0 /\ savedOnePlayer' = FALSE /\ lostPlayers' = <<>>
    /\ iter' = <<>> /\ idx' = 1
    /\ credited' = {} /\ drained' = {} /\ savedLog' = <<>>
    /\ seenOffline' = {} /\ seenTimedOut' = {} /\ listBroadcast' = FALSE
    /\ passStart' = {} /\ saveStart' = [p \in PlayerIds |-> 0]
    /\ deadMonsters' = <<>>
    /\ monStart' = {} /\ visitedM' = {} /\ spawnedNow' = {} /\ killedM' = {}
    /\ insertedM' = {} /\ lastVisit' = NoVisit
    /\ npcAp' = 0 /\ lastNpcVisit' = [id |-> 0, acts |-> {}]
    /\ UNCHANGED <<elapsed, now, usedAP, ap, passIdx, granted, callElapsed, usedBefore,
                   tickAp, scn, ticks, playerVars, monsterVars, Npc, npc, LostNpcs>>

\* The code of the simulation thread.
Handlers ==
    \/ turntheworld \/ turntheworldReturn
    \/ checkPlayersBegin \/ PlayerVisit \/ checkPlayersEnd
    \/ checkMonstersBegin \/ MonsterVisit \/ checkMonstersEnd
    \/ checkNPCBegin \/ NPCVisit \/ checkNPCEnd

\* ------------------------------------------------------------ environment
simLocals == <<pc, passIdx, iter, idx, playerLocals, playerLogs, monsterLogs>>

\* The steady clock advances to a later multiple of step, up to max.  The clock
\* is read at the top of turntheworld only, so time that passes during a tick is
\* time that passes before the next invocation.
SteadyAdvance(step, max) ==
    /\ pc = "idle"
    /\ UNCHANGED extVars
    /\ \E e \in {elapsed + step * k : k \in 1..(max \div step)} :
          /\ e <= max
          /\ elapsed' = e
    /\ UNCHANGED <<now, tickVars, simLocals, playerVars, monsterVars, npcVars>>

\* Time passes, in quanta of 20 ms.
SteadyQuantum == SteadyAdvance(20, 20 * MaxQuanta)

\* Time passes, in whole action points.
SteadyAP == SteadyAdvance(MIN_AP_UPDATE, MIN_AP_UPDATE * MaxTicks)

\* Time passes in the logout scenario.
SteadyPasses == SteadyAdvance(MIN_AP_UPDATE, MIN_AP_UPDATE * MaxPasses)

\* Time passes in the monster scenarios.
SteadyRounds == SteadyAdvance(MIN_AP_UPDATE, MIN_AP_UPDATE * MaxRounds)

\* The wall clock reaches the next second (it is read when a player pass begins).
WallAdvance ==
    /\ pc = "idle"
    /\ UNCHANGED extVars
    /\ now < MaxNow
    /\ now' = now + 1
    /\ UNCHANGED <<elapsed, tickVars, simLocals, playerVars, monsterVars, npcVars>>

\* A connection closes: the client left, or the scheduled LogOut frame was sent.
\* The network threads run beside the simulation thread; a pass reads a player's
\* connection once, when it visits the player, so what happens during a pass is
\* seen as if it had happened before the pass or after it.
ConnectionClosed ==
    \E p \in Players :
       /\ pc = "idle"
       /\ UNCHANGED extVars
       /\ player[p].online
       /\ player' = [player EXCEPT ![p].online = FALSE]
       /\ UNCHANGED <<elapsed, now, tickVars, simLocals, Players, logOutPlayers,
                      shutdownSent, monsterVars, npcVars>>

\* A monster is killed (by a player's command, between two ticks).
MonsterDies ==
    \E m \in Monsters :
       /\ pc = "idle"
       /\ UNCHANGED extVars
       /\ monster[m].alive
       /\ monster' = [monster EXCEPT ![m].alive = FALSE]
       /\ UNCHANGED <<elapsed, now, tickVars, simLocals, playerVars, Monsters,
                      newMonsters, SpawnList, spawnEnabled, npcVars>>

\* Mutant: no monster is told.
ForgetNoSpawn(pop, all) == all

\* initRespawns, lines 194-197: monster->remove() and monster->setSpawn(nullptr)
\* for each monster of the population
ForgetSpawns(pop, all) ==
    [m \in MonsterIds |->
        IF m \in pop THEN [all[m] EXCEPT !.alive = FALSE, !.spawn = 0] ELSE all[m]]

\* initRespawns, lines 194-197: Monsters.for_each
RespawnForget ==
    /\ pc = "idle"
    /\ spawnEpoch < MaxReloads
    /\ monster' = ForgetSpawns(Monsters, monster)
    /\ pc' = "forgotten"
    /\ UNCHANGED <<elapsed, now, tickVars, passIdx, iter, idx, playerLocals,
                   playerLogs, monsterLogs, playerVars, Monsters, newMonsters,
                   SpawnList, spawnEnabled, npcVars>>
    /\ UNCHANGED <<queueVars, commandVars, schedulerVars, spawnEpoch, spawnBorn>>

\* initRespawns, line 199: SpawnList.clear() destroys the spawn points
RespawnClear ==
    /\ pc = "forgotten"
    /\ SpawnList' = {}
    /\ spawnEpoch' = spawnEpoch + 1
    /\ pc' = "emptied"
    /\ UNCHANGED <<elapsed, now, tickVars, passIdx, iter, idx, playerLocals,
                   playerLogs, monsterLogs, playerVars, Monsters, monster,
                   newMonsters, spawnEnabled, npcVars>>
    /\ UNCHANGED <<queueVars, commandVars, schedulerVars, spawnBorn>>

\* initRespawns, lines 203-239: the rows of the spawnpoint table are loaded and
\* pushed back; the result is empty (return false), or an exception ends the
\* loop early (return false), or every row is loaded (return true)
RespawnLoad ==
    /\ pc = "emptied"
    /\ SpawnList' \in SUBSET SpawnIds
    /\ pc' = "idle"
    /\ UNCHANGED <<elapsed, now, tickVars, passIdx, iter, idx, playerLocals,
                   playerLogs, monsterLogs, playerVars, Monsters, monster,
                   newMonsters, spawnEnabled, npcVars>>
    /\ UNCHANGED <<queueVars, commandVars, schedulerVars, spawnEpoch, spawnBorn>>

\* initRespawns, lines 193-240
initRespawns == RespawnForget \/ RespawnClear \/ RespawnLoad

\* An NPC is killed (by a player or a monster, between two ticks).
NpcDies ==
    \E n \in Npc :
       /\ pc = "idle"
       /\ UNCHANGED extVars
       /\ npc[n].hp > 0
       /\ npc' = [npc EXCEPT ![n].hp = 0]
       /\ UNCHANGED <<elapsed, now, tickVars, simLocals, playerVars, monsterVars,
                      Npc, LostNpcs, npcAp, lastNpcVisit>>

\* An NPC is marked as lost (its script failed to load).
NpcLost ==
    \E n \in Npc \ LostNpcs :
       /\ pc = "idle"
       /\ UNCHANGED extVars
       /\ LostNpcs' = LostNpcs \cup {n}
       /\ UNCHANGED <<elapsed, now, tickVars, simLocals, playerVars, monsterVars,
                      Npc, npc, npcAp, lastNpcVisit>>

\* ------------------------------------------------- immediate-command queue
NetThreads == 1..NProducers
SimThread == <<"sim", 0>>
NetThread(t) == <<"net", t>>
NoThread == <<"none", 0>>

\* The queue right after construction: empty, unlocked, nobody in a call.
QueueIdle ==
    /\ immediatePlayerCommands = <<>>
    /\ immediatePlayerCommandsMutex = NoThread
    /\ pcCmd = "idle" /\ cmdPlayer = 0
    /\ pcAdd = [t \in NetThreads |-> "idle"]
    /\ pushed = <<>> /\ popLog = <<>> /\ workLog = <<>>

worldVars == <<elapsed, now, tickVars, simLocals, Players, logOutPlayers, shutdownSent,
               monsterVars, npcVars>>

\* std::unique_lock<std::mutex>::lock(), lines 171, 181 and 186: thread t waits
\* until the mutex is free and takes it
Lock(t) ==
    /\ immediatePlayerCommandsMutex = NoThread
    /\ immediatePlayerCommandsMutex' = t

\* std::unique_lock::unlock() and ~unique_lock(): the owner gives the mutex up
Unlocked(owner) == NoThread

\* Mutant: the mutex is kept while the command is worked out.
KeptLocked(owner) == owner

\* checkPlayerImmediateCommands, line 175: lock.unlock()
UnlockedForWork(owner) == Unlocked(owner)

\* Mutant: the front element stays in the queue.
PopNothing(q) == q

\* checkPlayerImmediateCommands, line 174: immediatePlayerCommands.pop()
Pop(q) == Tail(q)

\* Mutant: the commands are worked out whatever the connection says.
WorksOutOffline(online) == TRUE

\* checkPlayerImmediateCommands, line 177: if (player->Connection->online)
WorksOut(online) == online

\* checkPlayerImmediateCommands, line 171: the call begins and takes the lock
CmdCall ==
    /\ pcCmd = "idle"
    /\ pc = "idle"        \* the simulation thread is not in turntheworld
    /\ Lock(SimThread)
    /\ pcCmd' = "test"
    /\ UNCHANGED <<immediatePlayerCommands, cmdPlayer, pcAdd, pushed, popLog, workLog>>
    /\ UNCHANGED <<worldVars, player, commandVars, schedulerVars, respawnVars>>

\* checkPlayerImmediateCommands, lines 172-174: the loop test, front() and pop()
CmdPop ==
    /\ pcCmd = "test"
    /\ immediatePlayerCommands # <<>>
    /\ cmdPlayer' = Head(immediatePlayerCommands)
    /\ immediatePlayerCommands' = Pop(immediatePlayerCommands)
    /\ popLog' = Append(popLog, [h |-> Head(immediatePlayerCommands),
                                 online |-> player[Head(immediatePlayerCommands)].online])
    /\ pcCmd' = "unlock"
    /\ UNCHANGED <<immediatePlayerCommandsMutex, pcAdd, pushed, workLog>>
    /\ UNCHANGED <<worldVars, player, commandVars, schedulerVars, respawnVars>>

\* checkPlayerImmediateCommands, line 175
CmdUnlock ==
    /\ pcCmd = "unlock"
    /\ immediatePlayerCommandsMutex' = UnlockedForWork(immediatePlayerCommandsMutex)
    /\ pcCmd' = "online"
    /\ UNCHANGED <<immediatePlayerCommands, cmdPlayer, pcAdd, pushed, popLog, workLog>>
    /\ UNCHANGED <<worldVars, player, commandVars, schedulerVars, respawnVars>>

\* checkPlayerImmediateCommands, lines 177-178: the test of the connection, and
\* the call of workoutCommands if it is online
CmdTestOnline ==
    /\ pcCmd = "online"
    /\ LET on == player[cmdPlayer].online
       IN /\ workLog' = Append(workLog, [h |-> cmdPlayer, online |-> on,
                                         invoked |-> WorksOut(on)])
          /\ pcCmd' = IF WorksOut(on) THEN "workoutCommands" ELSE "relock"
    /\ UNCHANGED <<immediatePlayerCommands, immediatePlayerCommandsMutex, cmdPlayer,
                   pcAdd, pushed, popLog>>
    /\ UNCHANGED <<worldVars, player, commandVars, schedulerVars, respawnVars>>

\* checkPlayerImmediateCommands, line 178: workoutCommands returns
CmdWorkedOut ==
    /\ pcCmd = "workoutCommands"
    /\ pcCmd' = "relock"
    /\ UNCHANGED <<immediatePlayerCommands, immediatePlayerCommandsMutex, cmdPlayer,
                   pcAdd, pushed, popLog, workLog>>
    /\ UNCHANGED <<worldVars, player, commandVars, schedulerVars, respawnVars>>

\* checkPlayerImmediateCommands, line 181: lock.lock()
CmdRelock ==
    /\ pcCmd = "relock"
    /\ Lock(SimThread)
    /\ pcCmd' = "test"
    /\ UNCHANGED <<immediatePlayerCommands, cmdPlayer, pcAdd, pushed, popLog, workLog>>
    /\ UNCHANGED <<worldVars, player, commandVars, schedulerVars, respawnVars>>

\* checkPlayerImmediateCommands, lines 172 and 183: the queue is empty, the loop
\* ends and the lock is released on return
CmdReturn ==
    /\ pcCmd = "test"
    /\ immediatePlayerCommands = <<>>
    /\ immediatePlayerCommandsMutex' = Unlocked(immediatePlayerCommandsMutex)
    /\ pcCmd' = "idle"
    /\ cmdPlayer' = 0
    /\ UNCHANGED <<immediatePlayerCommands, pcAdd, pushed, popLog, workLog>>
    /\ UNCHANGED <<worldVars, player, commandVars, schedulerVars, respawnVars>>

checkPlayerImmediateCommands ==
    CmdCall \/ CmdPop \/ CmdUnlock \/ CmdTestOnline \/ CmdWorkedOut \/ CmdRelock
    \/ CmdReturn

\* addPlayerImmediateActionQueue, line 186: network thread t begins the call for
\* the player it serves and takes the lock
AddLock(t) ==
    /\ pcAdd[t] = "idle"
    /\ Len(pushed) + Cardinality({u \in NetThreads : pcAdd[u] = "push"}) < MaxPushes
    /\ Lock(NetThread(t))
    /\ pcAdd' = [pcAdd EXCEPT ![t] = "push"]
    /\ UNCHANGED <<immediatePlayerCommands, pcCmd, cmdPlayer, pushed, popLog, workLog>>
    /\ UNCHANGED <<worldVars, player, commandVars, schedulerVars, respawnVars>>

\* addPlayerImmediateActionQueue, line 187: immediatePlayerCommands.push(player)
AddPush(t) ==
    /\ pcAdd[t] = "push"
    /\ immediatePlayerCommands' = Append(immediatePlayerCommands, t)
    /\ pushed' = Append(pushed, t)
    /\ pcAdd' = [pcAdd EXCEPT ![t] = "unlock"]
    /\ UNCHANGED <<immediatePlayerCommandsMutex, pcCmd, cmdPlayer, popLog, workLog>>
    /\ UNCHANGED <<worldVars, player, commandVars, schedulerVars, respawnVars>>

\* addPlayerImmediateActionQueue, line 188: the lock is released on return
AddUnlock(t) ==
    /\ pcAdd[t] = "unlock"
    /\ immediatePlayerCommandsMutex' = Unlocked(immediatePlayerCommandsMutex)
    /\ pcAdd' = [pcAdd EXCEPT ![t] = "idle"]
    /\ UNCHANGED <<immediatePlayerCommands, pcCmd, cmdPlayer, pushed, popLog, workLog>>
    /\ UNCHANGED <<worldVars, player, commandVars, schedulerVars, respawnVars>>

addPlayerImmediateActionQueue ==
    \E t \in NetThreads : AddLock(t) \/ AddPush(t) \/ AddUnlock(t)

\* ------------------------------------------------------ executeUserCommand
\* Strings are sequences of characters; these are the characters that the
\* pattern tells apart: a letter, the space and the line feed.
Chars == {"a", " ", "\n"}

\* The characters `.` does not match in an ECMAScript pattern.
LineTerminators == {"\n", "\r"}

RECURSIVE StringsUpTo(_)
StringsUpTo(n) ==
    IF n = 0 THEN {<<>>}
    ELSE LET shorter == StringsUpTo(n - 1)
         IN shorter \cup {Append(w, c) : w \in shorter, c \in Chars}

\* Mutant: the pattern has no ` ?`.
SpaceWidthZero == {0}

\* executeUserCommand, line 662: the ` ?` of the pattern matches no space or one
SpaceWidths == {0, 1}

\* executeUserCommand, lines 662-665: std::regex_match of the whole of s against
\* ^!([^ ]+) ?(.*)?$ ; the match found is the first in the order of the
\* backtracking: the longest ([^ ]+), then the space taken rather than left.
regex_match(s) ==
    LET body == IF s = <<>> THEN <<>> ELSE Tail(s)
        splits ==
            {x \in (1..Len(body)) \X SpaceWidths :
                /\ \A i \in 1..x[1] : body[i] # " "
                /\ x[2] = 1 => x[1] < Len(body) /\ body[x[1] + 1] = " "
                /\ \A i \in (x[1] + x[2] + 1)..Len(body) :
                      body[i] \notin LineTerminators}
        best == CHOOSE x \in splits :
                   \A y \in splits : x[1] > y[1] \/ (x[1] = y[1] /\ x[2] >= y[2])
    IN IF s # <<>> /\ Head(s) = "!" /\ splits # {}
       THEN [ok |-> TRUE, m1 |-> SubSeq(body, 1, best[1]),
             m2 |-> SubSeq(body, best[1] + best[2] + 1, Len(body))]
       ELSE [ok |-> FALSE, m1 |-> <<>>, m2 |-> <<>>]

\* executeUserCommand, lines 659-675: the handlers invoked and the value returned
Execute(s, map) ==
    LET match == regex_match(s)
    IN IF match.ok /\ match["m1"] \in map
       THEN [called |-> <<[handler |-> match.m1, arg |-> match.m2]>>, found |-> TRUE]
       ELSE [called |-> <<>>, found |-> FALSE]

\* A player's text "!" + name + " " + arg arrives
ComposeInput(n, a) == <<"!">> \o n \o <<" ">> \o a

\* executeUserCommand, lines 659-675
executeUserCommand ==
    /\ found = "none"
    /\ called' = Execute(input, commands).called
    /\ found' = IF Execute(input, commands).found THEN "true" ELSE "false"
    /\ UNCHANGED <<commands, cmdName, cmdArg, input>>
    /\ UNCHANGED <<worldVars, player, queueVars, schedulerVars, respawnVars>>

\* The next command of the player arrives.
NextCommand ==
    /\ found # "none"
    /\ \E n \in commands :
          /\ cmdName' = n
          /\ input' = ComposeInput(n, cmdArg)
    /\ found' = "none"
    /\ called' = <<>>
    /\ UNCHANGED <<commands, cmdArg>>
    /\ UNCHANGED <<worldVars, player, queueVars, schedulerVars, respawnVars>>

\* ---------------------------------------------------------------- scheduler
\* C++ integer division and remainder: the quotient is truncated towards zero.
CDiv(a, b) == IF a >= 0 THEN a \div b ELSE -((-a) \div b)
CMod(a, b) == a - CDiv(a, b) * b

\* getNextIGDayTime, line 620: secondsInHour * 24 / illarionTimeFactor
realSecondsInIllarionDay == CDiv(secondsInHour * 24, illarionTimeFactor)

\* getNextIGDayTime, lines 612-623: curr_unixtime after line 623, for the time t
\* that time() returns
NextDayUnixtime(t, isdst, birth) ==
    LET c0 == IF isdst THEN t + secondsInHour ELSE t
        c1 == c0 - birth
        c2 == c1 - CMod(c1, realSecondsInIllarionDay)
    IN c2 + realSecondsInIllarionDay

\* getNextIGDayTime, lines 625-630: the steady-clock time point returned
getNextIGDayTime(c, birth) ==
    LET diff == NextDayUnixtime(c.unix, c.isdst, birth) - c.system
    IN c.steady + diff

\* initScheduler, lines 655-656: update_ig_day is registered with
\* getNextIGDayTime() as its first fire
initScheduler ==
    /\ ~updateIgDay.registered
    /\ updateIgDay' = [registered |-> TRUE,
                       boundary |-> NextDayUnixtime(clocks.unix, clocks.isdst,
                                                    illarionBirthTime),
                       fire |-> getNextIGDayTime(clocks, illarionBirthTime)]
    /\ UNCHANGED <<clocks, illarionBirthTime>>
    /\ UNCHANGED <<worldVars, player, queueVars, commandVars, respawnVars>>

\* A minute passes before the server starts.
ClockTick ==
    /\ ~updateIgDay.registered
    /\ clocks.unix < illarionBirthTime + (MaxDays + 1) * realSecondsInIllarionDay
    /\ clocks' = [clocks EXCEPT !.unix = @ + 60, !.system = @ + 60, !.steady = @ + 60]
    /\ UNCHANGED <<illarionBirthTime, updateIgDay>>
    /\ UNCHANGED <<worldVars, player, queueVars, commandVars, respawnVars>>

\* ---------------------------------------------------------- initial states
NewPlayer(on, ka, sv, q) ==
    [online |-> on, lastkeepalive |-> ka, lastsavetime |-> sv, ap |-> 0, fp |-> 0,
     pos |-> q]

NewNpc(h, q) == [hp |-> h, ap |-> 0, pos |-> q, onRoute |-> FALSE, script |-> TRUE]

\* initRespawns is not running; the spawn points are those of the first load.
RespawnIdle ==
    /\ spawnEpoch = 0 /\ spawnBorn = [m \in MonsterIds |-> 0]

\* The world right after construction: nothing has been granted yet.
InitBase ==
    /\ elapsed = 0 /\ usedAP = 0 /\ ap = 0
    /\ pc = "idle" /\ passIdx = 0
    /\ granted = 0 /\ callElapsed = -1 /\ usedBefore = 0 /\ tickAp = 0 /\ scn = <<>>
    /\ ticks = 0
    /\ now = 0
    /\ logOutPlayers = <<>> /\ shutdownSent = {}
    /\ newMonsters = <<>>
    /\ LostNpcs = {}
    /\ NoInvocation
    /\ QueueIdle
    /\ RespawnIdle

\* No player command is being executed.
CommandIdle ==
    /\ commands = {} /\ cmdName = <<>> /\ cmdArg = <<>> /\ input = <<>>
    /\ found = "none" /\ called = <<>>

\* The clocks at the start of a scenario that does not look at them.
NoClocks == [unix |-> 0, isdst |-> FALSE, system |-> 0, steady |-> 0]

NoTask == [registered |-> FALSE, boundary |-> 0, fire |-> 0]

\* The scheduler has no part in the scenario.
SchedulerIdle ==
    /\ clocks = NoClocks /\ illarionBirthTime = 0 /\ updateIgDay = NoTask

InitWorld == InitBase /\ CommandIdle /\ SchedulerIdle

\* The tick driver's scenario: one player, an NPC beside it, a monster far away.
InitTick ==
    /\ InitWorld
    /\ Players = {1}
    /\ player = [p \in PlayerIds |-> NewPlayer(TRUE, 0, 0, <<0, 0>>)]
    /\ Monsters = {1}
    /\ monster = [m \in MonsterIds |-> FreshMonster(0, <<MaxX, MaxY>>, 1)]
    /\ SpawnList = {} /\ spawnEnabled = TRUE
    /\ Npc = {1}
    /\ npc = [n \in NpcIds |-> NewNpc(MAXHPS, <<0, 0>>)]

SpecTick == InitTick /\ [][Handlers \/ SteadyQuantum]_vars

\* The scenarios of the player pass.  The wall clock is counted from the start
\* of the scenario.  A monster and an NPC stand far away.
InitPass(n, stamps) ==
    /\ InitWorld
    /\ Players = 1..n
    /\ player \in [PlayerIds -> stamps]
    /\ \A p \in PlayerIds \ (1..n) : player[p] = NewPlayer(FALSE, 0, 0, <<0, 0>>)
    /\ Monsters = {1}
    /\ monster = [m \in MonsterIds |-> FreshMonster(0, <<MaxX, MaxY>>, 1)]
    /\ SpawnList = {} /\ spawnEnabled = TRUE
    /\ Npc = {1}
    /\ npc = [n1 \in NpcIds |-> NewNpc(MAXHPS, <<MaxX, MaxY>>)]

\* The save scenario: a player's keepalive stamp is fresh or too old, and its
\* last save is PLAYER_SAVE_INTERVAL or one second before the start of the
\* scenario; or the player is offline.
SaveStamps ==
    {NewPlayer(TRUE, ka, sv, <<0, 0>>) :
        ka \in {0, -(CLIENT_TIMEOUT + 1)}, sv \in {-1, -PLAYER_SAVE_INTERVAL}}
        \cup {NewPlayer(FALSE, 0, -PLAYER_SAVE_INTERVAL, <<0, 0>>)}

InitSave == InitPass(NSavers, SaveStamps)

SpecSave == InitSave /\ [][Handlers \/ SteadyAP \/ WallAdvance]_vars

\* The logout scenario: a player is online, and its keepalive stamp is fresh,
\* too old or ahead of the clock; time passes and connections close.
LogoutStamps ==
    {NewPlayer(TRUE, ka, 0, <<0, 0>>) : ka \in {0, 1, -(CLIENT_TIMEOUT + 1)}}
        \cup {NewPlayer(FALSE, 0, 0, <<0, 0>>)}

InitLogout == InitPass(NLeavers, LogoutStamps)

SpecLogout ==
    InitLogout /\ [][Handlers \/ SteadyPasses \/ WallAdvance \/ ConnectionClosed]_vars

\* The spawn scenario: the spawn points are loaded and spawning is enabled; a
\* monster stands on them; the only player is offline and waits to be logged
\* out, so the monsters are credited and sleep.  Monsters die between the ticks.
InitSpawn ==
    /\ InitWorld
    /\ Players = {1}
    /\ player = [p \in PlayerIds |-> NewPlayer(FALSE, 0, 0, <<MaxX, 1>>)]
    /\ Monsters = {1}
    /\ monster = [m \in MonsterIds |-> FreshMonster(1, <<1, 1>>, SpawnRows[1].mtype)]
    /\ SpawnList = SpawnIds /\ spawnEnabled = TRUE
    /\ Npc = {1}
    /\ npc = [n \in NpcIds |-> NewNpc(MAXHPS, <<0, 0>>)]

SpecSpawn == InitSpawn /\ [][Handlers \/ SteadyRounds \/ MonsterDies]_vars


\* The wander scenario: spawning is disabled; each monster stands where its
\* spawn point has put it, on the spawn point or at the east end of its spawn
\* range, or is of a type without a definition and stands on <<1, 1>> without a
\* spawn point; an online player stands at the east edge of the map.
WanderMonsters ==
    {FreshMonster(0, <<1, 1>>, 3)}
    \cup {FreshMonster(sp, SpawnRows[sp].pos, SpawnRows[sp].mtype) : sp \in SpawnIds}
    \cup {FreshMonster(sp, <<SpawnRows[sp].pos[1] + SpawnRows[sp].spawnRange,
                             SpawnRows[sp].pos[2]>>,
                       SpawnRows[sp].mtype) : sp \in SpawnIds}

InitWander ==
    /\ InitWorld
    /\ Players = {1}
    /\ player = [p \in PlayerIds |-> NewPlayer(TRUE, 0, 0, <<MaxX, 1>>)]
    /\ Monsters = 1..NWanderers
    /\ monster \in [MonsterIds -> WanderMonsters]
    /\ \A m \in MonsterIds \ Monsters : monster[m] = FreshMonster(0, <<1, 1>>, 3)
    /\ SpawnList = SpawnIds /\ spawnEnabled = FALSE
    /\ Npc = {1}
    /\ npc = [n \in NpcIds |-> NewNpc(MAXHPS, <<0, 0>>)]

SpecWander == InitWander /\ [][Handlers \/ SteadyRounds]_vars

\* Time passes: one action point's worth, once.
SteadyOnce == SteadyAdvance(MIN_AP_UPDATE, MIN_AP_UPDATE)

\* What a monster remembers of a target when a tick finds it at q: nothing, a
\* target seen where it now stands (it has walked there), or a target seen at
\* the north edge of the map.
HuntMemories(q) ==
    {[seen |-> FALSE, at |-> NoPos], [seen |-> TRUE, at |-> q],
     [seen |-> TRUE, at |-> <<q[1], 0>>]}

\* Where the monster of the hunt scenario stands: one field west of the player
\* (in attack range), two (in view), three (near) or four (out of MAX_ACT_RANGE).
HuntPositions == {<<MaxX - k, 1>> : k \in 1..(MAX_ACT_RANGE + 1)}

\* The hunt scenario: an online player stands at the east edge of the map; one
\* monster of any type stands west of it, on a route or not, with any of the
\* memories; one tick runs.
HuntMonsters ==
    {[FreshMonster(0, q, ty) EXCEPT !.onRoute = r, !.lastTargetSeen = mem.seen,
                                    !.lastTargetPosition = mem.at] :
        q \in HuntPositions, ty \in MonsterTypes, r \in BOOLEAN,
        mem \in UNION {HuntMemories(h) : h \in HuntPositions}}

InitHunt ==
    /\ InitWorld
    /\ Players = {1}
    /\ player = [p \in PlayerIds |-> NewPlayer(TRUE, 0, 0, <<MaxX, 1>>)]
    /\ Monsters = {1}
    /\ monster \in [MonsterIds -> HuntMonsters]
    /\ \A m \in MonsterIds :
          /\ monster[m].lastTargetPosition
                \in {h.at : h \in HuntMemories(monster[m].pos)}
          /\ m \notin Monsters => monster[m] = monster[1]
    /\ SpawnList = {} /\ spawnEnabled = FALSE
    /\ Npc = {1}
    /\ npc = [n \in NpcIds |-> NewNpc(MAXHPS, <<0, 0>>)]

SpecHunt == InitHunt /\ [][Handlers \/ SteadyOnce]_vars

\* The reload scenario: as the spawn scenario, with one tick, and the spawn
\* points are loaded again before the tick or after it.
SpecReload ==
    InitSpawn /\ [][Handlers \/ SteadyOnce \/ MonsterDies \/ initRespawns]_vars

\* The queue scenario: each network thread serves one online player and pushes
\* its handle; connections close at any moment; no tick runs.
InitQueue ==
    /\ InitWorld
    /\ Players = NetThreads
    /\ player = [p \in PlayerIds |-> NewPlayer(p \in NetThreads, 0, 0, <<0, 0>>)]
    /\ Monsters = {1}
    /\ monster = [m \in MonsterIds |-> FreshMonster(0, <<MaxX, MaxY>>, 1)]
    /\ SpawnList = {} /\ spawnEnabled = TRUE
    /\ Npc = {1}
    /\ npc = [n \in NpcIds |-> NewNpc(MAXHPS, <<0, 0>>)]

SpecQueue ==
    InitQueue /\ [][checkPlayerImmediateCommands \/ addPlayerImmediateActionQueue
                     \/ ConnectionClosed]_vars

\* Handles that wait in the queue when the late-handle scenario begins.
QueuedHandles == [1..(MaxPushes - 1) -> NetThreads]

\* The late-handle scenario: each network thread serves one online player;
\* handles of these players wait in the queue and one more is pushed at any
\* moment; connections close; one tick runs, whose player pass logs out the
\* players it finds offline; checkPlayerImmediateCommands is called before
\* the tick or after it.
InitLateQueue ==
    /\ elapsed = 0 /\ usedAP = 0 /\ ap = 0
    /\ pc = "idle" /\ passIdx = 0
    /\ granted = 0 /\ callElapsed = -1 /\ usedBefore = 0 /\ tickAp = 0 /\ scn = <<>>
    /\ ticks = 0
    /\ now = 0
    /\ logOutPlayers = <<>> /\ shutdownSent = {}
    /\ newMonsters = <<>>
    /\ LostNpcs = {}
    /\ NoInvocation
    /\ RespawnIdle /\ CommandIdle /\ SchedulerIdle
    /\ immediatePlayerCommands \in QueuedHandles
    /\ pushed = immediatePlayerCommands
    /\ immediatePlayerCommandsMutex = NoThread
    /\ pcCmd = "idle" /\ cmdPlayer = 0
    /\ pcAdd = [t \in NetThreads |-> "idle"]
    /\ popLog = <<>> /\ workLog = <<>>
    /\ Players = NetThreads
    /\ player = [p \in PlayerIds |-> NewPlayer(p \in NetThreads, 0, 0, <<0, 0>>)]
    /\ Monsters = {1}
    /\ monster = [m \in MonsterIds |-> FreshMonster(0, <<MaxX, MaxY>>, 1)]
    /\ SpawnList = {} /\ spawnEnabled = FALSE
    /\ Npc = {1}
    /\ npc = [n \in NpcIds |-> NewNpc(MAXHPS, <<MaxX, MaxY>>)]

SpecLateQueue ==
    InitLateQueue /\ [][Handlers \/ SteadyOnce \/ ConnectionClosed
                         \/ checkPlayerImmediateCommands
                         \/ addPlayerImmediateActionQueue]_vars

\* The names handlers are registered under: words, of any characters but the
\* space (a name with a space in it, or an empty one, is a key that no input
\* of a player selects).
CommandNames == {w \in StringsUpTo(MaxNameLen) : w # <<>> /\ " " \notin Range(w)}

\* The command scenario: a command map of one or two handlers, and the input
\* composed of one of the names and any argument.
InitCommand ==
    /\ InitBase
    /\ Players = {1}
    /\ player = [p \in PlayerIds |-> NewPlayer(TRUE, 0, 0, <<0, 0>>)]
    /\ Monsters = {1}
    /\ monster = [m \in MonsterIds |-> FreshMonster(0, <<MaxX, MaxY>>, 1)]
    /\ SpawnList = {} /\ spawnEnabled = TRUE
    /\ Npc = {1}
    /\ npc = [n \in NpcIds |-> NewNpc(MAXHPS, <<0, 0>>)]
    /\ cmdName \in CommandNames
    /\ cmdArg \in StringsUpTo(MaxArgLen)
    /\ commands \in {{cmdName, other} : other \in CommandNames}
    /\ input = ComposeInput(cmdName, cmdArg)
    /\ found = "none" /\ called = <<>>
    /\ SchedulerIdle

SpecCommand == InitCommand /\ [][executeUserCommand \/ NextCommand]_vars

\* The NPC scenario: the NPCs stand beside an online player or far from it,
\* alive or dead, with a script or without; they are killed and marked as lost
\* between the ticks.
InitNpc ==
    /\ InitWorld
    /\ Players = {1}
    /\ player = [p \in PlayerIds |-> NewPlayer(TRUE, 0, 0, <<0, 0>>)]
    /\ Monsters = {1}
    /\ monster = [m \in MonsterIds |-> FreshMonster(0, <<MaxX, MaxY>>, 1)]
    /\ SpawnList = {} /\ spawnEnabled = FALSE
    /\ Npc = NpcIds
    /\ npc \in [NpcIds -> {[NewNpc(h, q) EXCEPT !.script = sc] :
                              h \in {0, MAXHPS}, q \in {<<1, 0>>, <<MaxX, MaxY>>},
                              sc \in BOOLEAN}]

SpecNpc == InitNpc /\ [][Handlers \/ SteadyRounds \/ NpcDies \/ NpcLost]_vars

\* The calendar begins at Unix time 0, as in the example of the day anchor, or
\* in February 2000.
BirthTimes == {0, 950742000}

\* The seconds of an in-game day at which the server starts: its first and
\* second, the 1200th (30000 s after the epoch is 1200 s into the second day),
\* one that daylight saving time carries into the next day, and its last but one.
DaySeconds ==
    {0, 1, 1200, realSecondsInIllarionDay - secondsInHour,
     realSecondsInIllarionDay - 2}

\* The scheduler scenario: the server starts on one of the first days of the
\* calendar, with or without daylight saving time; the steady clock counts
\* from the boot of the machine.
InitScheduler ==
    /\ InitBase /\ CommandIdle
    /\ Players = {1}
    /\ player = [p \in PlayerIds |-> NewPlayer(TRUE, 0, 0, <<0, 0>>)]
    /\ Monsters = {1}
    /\ monster = [m \in MonsterIds |-> FreshMonster(0, <<MaxX, MaxY>>, 1)]
    /\ SpawnList = {} /\ spawnEnabled = TRUE
    /\ Npc = {1}
    /\ npc = [n \in NpcIds |-> NewNpc(MAXHPS, <<0, 0>>)]
    /\ illarionBirthTime \in BirthTimes
    /\ \E d \in 0..MaxDays, r \in DaySeconds, dst \in BOOLEAN, up \in {0, 500} :
          LET t == illarionBirthTime + d * realSecondsInIllarionDay + r
          IN clocks = [unix |-> t, isdst |-> dst, system |-> t, steady |-> up]
    /\ updateIgDay = NoTask

SpecScheduler == InitScheduler /\ [][initScheduler \/ ClockTick]_vars

\* ------------------------------------------------------------------ claims
Floor(e) == e \div MIN_AP_UPDATE

\* C1: after every invocation of turntheworld usedAP is at most
\* floor(elapsed_ms / MIN_AP_UPDATE), the ledger never runs ahead of the clock,
\* and usedAP is not less than it was before the invocation.
C1_LedgerBehindClock ==
    /\ usedAP <= Floor(elapsed)
    /\ callElapsed >= 0 => /\ usedAP <= Floor(callElapsed)
                           /\ usedAP >= usedBefore

\* An invocation after a stall has raised usedAP by more than one.
C1_Witness == pc = "idle" /\ callElapsed >= 0 /\ usedAP >= usedBefore + 2

\* C2: the ap an invocation grants is floor(elapsed / MIN_AP_UPDATE) minus the
\* sum of the earlier grants, so the grants up to an invocation at time t sum to
\* floor(t / MIN_AP_UPDATE); invocations at 0, 80, 220 and 500 ms grant 0, 0, 2
\* and 3, and usedAP ends at 5.
C2_GrantIsLedgerDifference ==
    /\ callElapsed >= 0 =>
          /\ tickAp = Floor(callElapsed) - (granted - (IF tickAp > 0 THEN tickAp ELSE 0))
          /\ granted = Floor(callElapsed)
    /\ (scn # OffScenario /\ Len(scn) = Len(ScenarioTimes)) =>
          /\ scn = <<0, 0, 2, 3>>
          /\ usedAP = 5

\* The four invocations of the scenario have happened.
C2_Witness == scn = <<0, 0, 2, 3>> /\ usedAP = 5 /\ granted = 5

\* An invocation of turntheworld that calls no pass.
NoopInvocation ==
    /\ pc = "idle"
    /\ <<ap, tickAp, callElapsed, usedBefore, passLog, scn>>'
          # <<ap, tickAp, callElapsed, usedBefore, passLog, scn>>
    /\ tickAp' <= 0

\* C3: an invocation that computes ap <= 0 runs no pass and leaves usedAP, the
\* three populations, every character, newMonsters and the logout queue as they
\* were.
C3_NoopLeavesWorld ==
    [][NoopInvocation =>
          /\ pc' = "idle" /\ passLog' = <<>>
          /\ UNCHANGED <<usedAP, granted, Players, player, Monsters, monster, Npc, npc,
                         newMonsters, logOutPlayers, shutdownSent>>
          /\ NoInvocation']_vars

\* A no-op invocation has followed a tick that credited the characters.
C3_Witness ==
    /\ pc = "idle" /\ callElapsed >= 0 /\ tickAp = 0 /\ usedAP > 0
    /\ passLog = <<>> /\ player[1].ap > 0

ThreePasses == <<"players", "monsters", "npcs">>

\* C4: an invocation with ap > 0 runs the player pass, the monster pass and the
\* NPC pass once each, in this order, and has added ap to usedAP before the
\* first pass starts.
C4_PassesInOrder ==
    /\ Len(passLog) <= Len(ThreePasses)
    /\ \A i \in 1..Len(passLog) : passLog[i] = ThreePasses[i]
    /\ pc # "idle" => /\ tickAp > 0
                      /\ usedAP = usedBefore + tickAp
    /\ pc = "idle" => passLog = <<>>
    /\ pc = "loop" => passLog # <<>> /\ CurPass = passLog[Len(passLog)]
    /\ pc = "call" => Len(passLog) < Len(ThreePasses)
                      /\ CurPass = ThreePasses[Len(passLog) + 1]
    /\ pc = "return" => passLog = ThreePasses

\* An invocation with ap > 0 is about to return.
C4_Witness == pc = "return" /\ tickAp > 1 /\ passLog = ThreePasses

\* The player pass of the current invocation is iterating.
InPlayerPass == pc = "loop" /\ CurPass = "players"

\* The player pass of the current invocation has returned.
PlayersDone == "players" \in Range(passLog) /\ ~InPlayerPass

\* The players the iterating player pass has visited so far.
VisitedPlayers == {iter[i] : i \in 1..(idx - 1)}

\* The player's keepalive is neither older than CLIENT_TIMEOUT nor ahead of the
\* time the pass read.
WithinWindow(p) ==
    LET sinceKeepalive == passNow - player[p].lastkeepalive
    IN sinceKeepalive >= 0 /\ sinceKeepalive <= CLIENT_TIMEOUT

\* When the pass began, the player was online, within the window and due.
Eligible(p) ==
    /\ player[p].online
    /\ WithinWindow(p)
    /\ passNow - saveStart[p] >= PLAYER_SAVE_INTERVAL

\* C5: a player pass calls save() at most once, whatever the population and
\* however many players are due, and the player it saves is the first one in
\* iteration order that is online, within the keepalive window and due.
C5_OneSavePerPass ==
    /\ Len(savedLog) <= 1
    /\ InPlayerPass =>
          LET due == {i \in 1..(idx - 1) : Eligible(iter[i])}
          IN IF due = {}
             THEN savedLog = <<>>
             ELSE savedLog = <<iter[CHOOSE i \in due : \A j \in due : i <= j]>>

\* A pass has visited everyone; two players were due, and the first in
\* iteration order was not.
C5_Witness ==
    /\ InPlayerPass /\ idx > Len(iter)
    /\ Cardinality({p \in VisitedPlayers : Eligible(p)}) >= 2
    /\ savedLog # <<>> /\ savedLog[1] # iter[1]

\* The staggered-save scenario at time t: the whole population is online and
\* within the window, everyone was due when the scenario began (and has since
\* been saved or not), and less than PLAYER_SAVE_INTERVAL has passed.  Stamps
\* only age in this scenario, so what holds at t held at every earlier tick.
SaveScenario(t) ==
    /\ Players = 1..NSavers
    /\ t < PLAYER_SAVE_INTERVAL
    /\ \A p \in Players :
          /\ player[p].online
          /\ t - player[p].lastkeepalive >= 0
          /\ t - player[p].lastkeepalive <= CLIENT_TIMEOUT
          /\ player[p].lastsavetime # -1

\* The players saved since the scenario began.
SavedPlayers == {p \in Players : player[p].lastsavetime >= 0}

\* C6: with N online players within the window that are all due, every tick
\* saves exactly one player that has not been saved yet and leaves the other
\* players' lastsavetime alone, so after k ticks k players have been saved, and
\* after N ticks (within less than PLAYER_SAVE_INTERVAL) all of them, once each.
C6_StaggeredSaves ==
    /\ (pc = "idle" /\ SaveScenario(now)) =>
          Cardinality(SavedPlayers) = Min(ticks, NSavers)
    /\ (PlayersDone /\ SaveScenario(passNow)) =>
          LET unsaved == {p \in Players : saveStart[p] < 0}
          IN IF unsaved = {}
             THEN savedLog = <<>>
                  /\ \A p \in Players : player[p].lastsavetime = saveStart[p]
             ELSE /\ Len(savedLog) = 1
                  /\ savedLog[1] \in unsaved
                  /\ player[savedLog[1]].lastsavetime = passNow
                  /\ \A p \in Players \ {savedLog[1]} :
                        player[p].lastsavetime = saveStart[p]

\* N ticks have run in the scenario and everyone has been saved.
C6_Witness ==
    /\ pc = "idle" /\ SaveScenario(now)
    /\ ticks = NSavers
    /\ SavedPlayers = 1..NSavers

\* The players a player pass of the current invocation found online and not
\* within the keepalive window.
TimedOutSeen ==
    IF InPlayerPass
    THEN {p \in VisitedPlayers : player[p].online /\ ~WithinWindow(p)}
    ELSE IF PlayersDone
         THEN {p \in passStart : player[p].online /\ ~WithinWindow(p)}
         ELSE {}

\* C7: a player that is online but timed out when the pass visits it has the
\* LogOut frame scheduled, gets no credit, no command drain and no save in that
\* pass and is still in the population when the pass has returned; a player
\* leaves the population only in a pass that observed it offline.
C7_TimedOutLeavesGracefully ==
    /\ [](\A p \in TimedOutSeen :
             /\ p \in shutdownSent
             /\ p \notin credited
             /\ p \notin drained
             /\ p \notin Range(savedLog)
             /\ player[p].lastsavetime = saveStart[p]
             /\ p \in Players)
    /\ [][\A p \in Players \ Players' :
             /\ ~player[p].online
             /\ p \in seenOffline
             /\ InPlayerPass]_vars

\* A player that timed out in an earlier pass has been observed offline and
\* erased by this one.
C7_Witness ==
    \E p \in shutdownSent :
       /\ PlayersDone
       /\ p \in seenOffline
       /\ p \notin Players
       /\ TimedOutSeen # {}

\* C8: when a player pass has returned, every player it observed offline is
\* out of the population and in the logout queue; no player is in the logout
\* queue twice; updatePlayerList was called iff the pass erased a player.
C8_OfflinePlayersLogOut ==
    /\ \A i, j \in 1..Len(logOutPlayers) :
          i # j => logOutPlayers[i] # logOutPlayers[j]
    /\ InPlayerPass =>
          \A p \in VisitedPlayers :
             ~player[p].online => p \in Range(logOutPlayers)
    /\ PlayersDone =>
          /\ \A p \in passStart :
                ~player[p].online =>
                   p \notin Players /\ p \in Range(logOutPlayers)
          /\ listBroadcast <=> (passStart \ Players # {})

\* A pass has erased a player and called updatePlayerList, and an earlier pass
\* had put another player into the logout queue.
C8_Witness ==
    /\ PlayersDone
    /\ listBroadcast
    /\ \E p \in passStart : ~player[p].online /\ p \notin Players
    /\ Len(logOutPlayers) > Cardinality(passStart \ Players)

\* The monster pass of the current invocation is iterating.
InMonsterPass == pc = "loop" /\ CurPass = "monsters"

\* The monster pass of the current invocation has returned.
MonstersDone == "monsters" \in Range(passLog) /\ ~InMonsterPass

\* C9: no population changes while its own pass iterates it.  During the
\* monster iteration the population is the one the pass began with, the dead
\* are collected and still in it, and the buffered monsters are not in it; a
\* monster spawned in this tick is neither visited nor credited by this tick's
\* pass; when checkMonsters has returned, the dead have been killed, the
\* buffered monsters inserted and newMonsters is empty.  During the player
\* iteration the offline players are marked and still in the population.
C9_NoMutationDuringOwnPass ==
    /\ InMonsterPass =>
          /\ Monsters = monStart
          /\ Range(deadMonsters) \subseteq Monsters
          /\ Range(newMonsters) \cap Monsters = {}
    /\ visitedM \cap spawnedNow = {}
    /\ \A id \in spawnedNow : monster[id].ap = 0 /\ monster[id].fp = 0
    /\ MonstersDone =>
          /\ newMonsters = <<>>
          /\ insertedM = spawnedNow
          /\ visitedM = monStart
          /\ Monsters = (monStart \ killedM) \cup insertedM
          /\ killedM \cap Monsters = {}
    /\ InPlayerPass =>
          /\ Players = passStart
          /\ Range(lostPlayers) \subseteq Players

\* A monster pass has returned that killed a monster it had collected and
\* inserted a monster spawned in the same tick.
C9_Witness ==
    /\ MonstersDone
    /\ killedM # {}
    /\ insertedM # {}
    /\ insertedM \subseteq Monsters

\* The latest visit of the iterating monster pass was a random step of a
\* monster with a spawn point.
Wandered ==
    /\ InMonsterPass
    /\ lastVisit.id # 0
    /\ "wander" \in lastVisit.acts
    /\ monster[lastVisit.id].spawn # 0

\* How far the monster of the latest visit is from its spawn point, and how
\* far it was when the visit began.
SpawnOfVisited == SpawnRows[monster[lastVisit.id].spawn]
DistAfterWander == Dist(monster[lastVisit.id].pos, SpawnOfVisited.pos)
DistBeforeWander == Dist(lastVisit.from, SpawnOfVisited.pos)

\* C10 as stated: after any random step a monster with a spawn point is within
\* range + 1 of it.
C10_WanderStaysNearSpawn ==
    Wandered => DistAfterWander <= SpawnOfVisited.range + 1

\* C10, amended: a monster with a spawn point that is within range + 1 of it
\* before a random step is within range + 1 of it after the step.
C10_WanderKeepsNearSpawn ==
    (Wandered /\ DistBeforeWander <= SpawnOfVisited.range + 1)
        => DistAfterWander <= SpawnOfVisited.range + 1

\* A monster within range + 1 of its spawn point has taken a random step in a
\* direction the reflection rule had remapped.
C10_Witness ==
    /\ Wandered
    /\ DistBeforeWander <= SpawnOfVisited.range + 1
    /\ lastVisit.used # lastVisit.drawn
    /\ monster[lastVisit.id].pos = MovePos(lastVisit.from, lastVisit.used)

\* C11: the two remappings of the wander reflection are involutions and
\* commute, and each leaves the cardinal directions of the other axis alone:
\* this holds of whatever direction a random step draws, and a random step
\* draws each of the eight.
C11_FlipsAreCommutingInvolutions ==
    \A d \in Directions :
       d = lastVisit.drawn =>
          /\ FlipEastWest(d) \in Directions
          /\ FlipNorthSouth(d) \in Directions
          /\ FlipEastWest(FlipEastWest(d)) = d
          /\ FlipNorthSouth(FlipNorthSouth(d)) = d
          /\ FlipNorthSouth(FlipEastWest(d)) = FlipEastWest(FlipNorthSouth(d))
          /\ d \in {dir_north, dir_south} => FlipEastWest(d) = d
          /\ d \in {dir_east, dir_west} => FlipNorthSouth(d) = d

\* A random step has used a direction that both remappings had changed.
C11_Witness ==
    /\ InMonsterPass
    /\ "wander" \in lastVisit.acts
    /\ FlipEastWest(lastVisit.drawn) # lastVisit.drawn
    /\ FlipNorthSouth(lastVisit.drawn) # lastVisit.drawn
    /\ lastVisit.used = FlipNorthSouth(FlipEastWest(lastVisit.drawn))

\* The visitor of the monster pass is called for monster m in this step.
VisitOf(m) ==
    /\ pc = "loop" /\ CurPass = "monsters"
    /\ idx <= Len(iter) /\ iter[idx] = m
    /\ idx' = idx + 1

\* The visit logged last went past the early return of line 274: the monster
\* could act and had a player nearby or was on a route.
Acted(v) == "canAct" \in v.acts /\ "asleep" \notin v.acts

\* A target was chosen in the visit, in attack range or in view.
TargetChosen(v) == v.acts \cap {"target", "targetChar"} # {}

\* C12 as stated: once the visit of a monster has begun, a monster that stands
\* on its lastTargetPosition has lastTargetSeen = false.
C12_OnTargetMeansForgotten ==
    \A m \in Monsters :
       (lastVisit.id = m /\ "credit" \in lastVisit.acts
          /\ monster[m].pos = monster[m].lastTargetPosition)
       => ~monster[m].lastTargetSeen

\* C12, amended: when the visit of a monster that can act, is awake and is not
\* on a route finds the monster on its lastTargetPosition, the flag is cleared
\* before the target searches of that visit: the monster takes no step towards
\* the remembered position, and the flag is set after the visit exactly if the
\* visit has chosen a target.
C12_ForgottenBeforeSearch ==
    [][\A m \in Monsters :
          (/\ VisitOf(m)
           /\ Acted(lastVisit')
           /\ ~monster[m].onRoute
           /\ monster[m].pos = monster[m].lastTargetPosition)
          => /\ "stepToLast" \notin lastVisit'.acts
             /\ monster'[m].lastTargetSeen <=> TargetChosen(lastVisit')]_vars

\* A monster that had walked to the position it remembered has been visited,
\* has found no target and stands there with the flag cleared.
C12_Witness ==
    \E m \in Monsters :
       /\ lastVisit.id = m /\ Acted(lastVisit) /\ ~TargetChosen(lastVisit)
       /\ monster[m].pos = monster[m].lastTargetPosition
       /\ ~monster[m].lastTargetSeen

\* C13: when a monster that is not on a route has chosen a target in attack
\* range and enemyNear returns true, the visit leaves lastTargetPosition at the
\* target's position, lastTargetSeen true and the enemy naming the target, and
\* has not called characterAttacks, turned, stepped, healed or moved at random;
\* when enemyOnSight returns true for a target in view, the visit ends with the
\* target remembered and without a step.
C13_HookConsumesTick ==
    [][\A m \in Monsters :
          VisitOf(m) =>
             LET v == lastVisit'
                 before == monster[m]
                 after == monster'[m]
             IN /\ "nearTrue" \in v.acts =>
                      /\ ~before.onRoute
                      /\ \E t \in getTargetsInRange(before.pos, before.range) :
                            /\ after.lastTargetPosition = t.pos
                            /\ after.enemy = <<t.type, t.id>>
                      /\ after.lastTargetSeen
                      /\ v.acts \cap {"attack", "turn", "step", "stepToLast", "heal",
                                      "wander", "enemyOnSight"} = {}
                      /\ after.pos = before.pos
                      /\ after.ap = IncreasePoints(before.ap, ap)
                /\ "sightTrue" \in v.acts =>
                      /\ ~before.onRoute
                      /\ \E t \in getTargetsInRange(before.pos, MONSTERVIEWRANGE) :
                            after.lastTargetPosition = t.pos
                      /\ after.lastTargetSeen
                      /\ v.acts \cap {"step", "stepToLast", "heal", "wander"} = {}
                      /\ after.pos = before.pos
                      /\ after.ap = IncreasePoints(before.ap, ap)]_vars

\* enemyNear has returned true for the player beside the monster, which the
\* monster now remembers as its enemy.
C13_Witness ==
    \E m \in Monsters :
       /\ lastVisit.id = m /\ "nearTrue" \in lastVisit.acts
       /\ monster[m].enemy = <<"player", 1>>
       /\ monster[m].lastTargetPosition = player[1].pos
       /\ Dist(monster[m].pos, player[1].pos) <= monster[m].range

\* enemyOnSight has returned true for a player two fields away.
C13_SightWitness ==
    \E m \in Monsters :
       /\ lastVisit.id = m /\ "sightTrue" \in lastVisit.acts
       /\ monster[m].lastTargetPosition = player[1].pos
       /\ Dist(monster[m].pos, player[1].pos) = MONSTERVIEWRANGE

\* Some thread is inside a call of the queue's two methods.
InQueueCall == pcCmd # "idle" \/ \E t \in NetThreads : pcAdd[t] # "idle"

\* The owner of the mutex is at a step that does not wait for the mutex.
OwnerCanStep ==
    /\ immediatePlayerCommandsMutex = SimThread => pcCmd \in {"test", "unlock"}
    /\ \A t \in NetThreads :
          immediatePlayerCommandsMutex = NetThread(t) => pcAdd[t] \in {"push", "unlock"}

\* C14: the simulation thread does not own the mutex from the unlock after a pop
\* until it locks again, so not while workoutCommands runs; while a command is
\* worked out the mutex is free or owned by a network thread that is about to
\* push and release it, so a call of addPlayerImmediateActionQueue completes
\* without a step of the simulation thread; and whenever a thread is inside a
\* call some thread can take a step.
C14_NoLockWhileWorking ==
    /\ pcCmd \in {"online", "workoutCommands", "relock"}
          => immediatePlayerCommandsMutex # SimThread
    /\ OwnerCanStep
    /\ InQueueCall
          => ENABLED (checkPlayerImmediateCommands \/ addPlayerImmediateActionQueue)

\* A network thread has pushed a handle while workoutCommands was running.
C14_Witness ==
    /\ pcCmd = "workoutCommands"
    /\ \E t \in NetThreads :
          /\ immediatePlayerCommandsMutex = NetThread(t)
          /\ pcAdd[t] = "unlock"
          /\ immediatePlayerCommands # <<>>

\* The handles of a log, in its order.
Handles(log) == [i \in 1..Len(log) |-> log[i].h]

\* The pushed handles are the popped ones followed by the queued ones: none is
\* lost or popped twice, and they are popped in the order of the pushes.
PoppedOnceInOrder == pushed = Handles(popLog) \o immediatePlayerCommands

\* The popped handles are tested one by one, in the order of the pops.
TestedInOrder ==
    /\ Len(workLog) <= Len(popLog)
    /\ \A i \in 1..Len(workLog) : workLog[i].h = popLog[i].h

\* checkPlayerImmediateCommands returns in this step.
CmdReturns == pcCmd # "idle" /\ pcCmd' = "idle"

\* A return happens with the mutex owned and the queue empty, every handle
\* pushed so far popped and tested.
ReturnsOnEmpty ==
    [][CmdReturns =>
          /\ immediatePlayerCommandsMutex = SimThread
          /\ immediatePlayerCommands = <<>>
          /\ Handles(popLog) = pushed
          /\ Len(workLog) = Len(popLog)]_vars

\* C15 as stated: every pushed handle is popped exactly once and in the order
\* of the pushes, workoutCommands is invoked for a popped handle exactly if the
\* connection is online at the time of the pop, and the call returns only
\* after it has seen the queue empty under the lock.
C15_HandOffAtPop ==
    /\ [](/\ PoppedOnceInOrder
          /\ TestedInOrder
          /\ \A i \in 1..Len(workLog) : workLog[i].invoked = popLog[i].online)
    /\ ReturnsOnEmpty

\* C15, amended: as above, but workoutCommands is invoked exactly if the
\* connection is online when line 177 reads it, after the pop and the unlock.
C15_HandOffAtTest ==
    /\ [](/\ PoppedOnceInOrder
          /\ TestedInOrder
          /\ \A i \in 1..Len(workLog) : workLog[i].invoked = workLog[i].online)
    /\ ReturnsOnEmpty

\* Two network threads have pushed, the call has popped both handles in order
\* and returned, and one of the two connections, online when its handle was
\* popped, had closed when it was tested.
C15_Witness ==
    /\ pcCmd = "idle"
    /\ Len(popLog) >= 2 /\ Handles(popLog) = pushed
    /\ \E i, j \in 1..Len(workLog) :
          /\ popLog[i].h # popLog[j].h
          /\ workLog[i].invoked
          /\ popLog[j].online /\ ~workLog[j].invoked

\* A call of executeUserCommand has returned.
CommandDone == found # "none"

\* The call invoked the handler registered under cmdName, once, with cmdArg,
\* and returned true.
Dispatched == called = <<[handler |-> cmdName, arg |-> cmdArg]>> /\ found = "true"

NoLeadingSpace(a) == a = <<>> \/ Head(a) # " "

\* C16 as stated: for a name n of the command map and an argument a with no
\* leading space, the input "!" + n + " " + a invokes the handler registered
\* under n, once, with argument a, and true is returned.
C16_RoundTrip ==
    (CommandDone /\ cmdName \in commands /\ input = ComposeInput(cmdName, cmdArg)
        /\ NoLeadingSpace(cmdArg))
    => Dispatched

\* C16, amended: the same for a name that is a word (not empty, no space) and
\* an argument that holds no line terminator.
C16_RoundTripOfPlainText ==
    (CommandDone /\ cmdName \in commands /\ input = ComposeInput(cmdName, cmdArg)
        /\ NoLeadingSpace(cmdArg)
        /\ cmdName # <<>> /\ " " \notin Range(cmdName)
        /\ Range(cmdArg) \cap LineTerminators = {})
    => Dispatched

\* A handler has been invoked with an argument that holds a space, out of a map
\* of two handlers.
C16_Witness ==
    /\ CommandDone /\ Dispatched
    /\ Cardinality(commands) = 2
    /\ " " \in Range(cmdArg) /\ NoLeadingSpace(cmdArg)
    /\ Range(cmdArg) \cap LineTerminators = {}

\* The boundary of the next in-game day as a Unix time: the time t, an hour
\* later under daylight saving time, counted from the birth time, rounded up to
\* the next whole in-game day, and counted from the epoch again.
NextBoundary(t, isdst, birth) ==
    LET adjusted == IF isdst THEN t + secondsInHour ELSE t
    IN (CDiv(adjusted - birth, realSecondsInIllarionDay) + 1) * realSecondsInIllarionDay
          + birth

\* C17: the boundary getNextIGDayTime computes for the Unix time t is
\* ((t - illarionBirthTime) / realSecondsInIllarionDay + 1)
\* * realSecondsInIllarionDay + illarionBirthTime, t taken an hour later under
\* daylight saving time, and update_ig_day first fires at the steady clock's
\* now plus the boundary minus the system clock's now; with factor 3, birth
\* time 0 and t = 30000 without daylight saving time the boundary is 57600 and
\* the first fire 27600 s ahead.
C17_DayBoundaryAnchored ==
    updateIgDay.registered =>
       LET boundary == NextBoundary(clocks.unix, clocks.isdst, illarionBirthTime)
       IN /\ updateIgDay.boundary = boundary
          /\ updateIgDay.fire = clocks.steady + (boundary - clocks.system)
          /\ (illarionBirthTime = 0 /\ clocks.unix = 30000 /\ ~clocks.isdst) =>
                /\ updateIgDay.boundary = 57600
                /\ updateIgDay.fire = clocks.steady + 27600

\* What the code computes instead: the boundary counted from the birth time,
\* never counted from the epoch again, so that the claim holds of a calendar
\* that begins at the epoch and of no other.
BoundaryCountedFromBirth ==
    updateIgDay.registered =>
       LET boundary == NextBoundary(clocks.unix, clocks.isdst, illarionBirthTime)
                          - illarionBirthTime
       IN /\ updateIgDay.boundary = boundary
          /\ updateIgDay.fire = clocks.steady + (boundary - clocks.system)
          /\ illarionBirthTime = 0 => C17_DayBoundaryAnchored

\* The example of the day anchor has been computed.
DayAnchorExample ==
    /\ updateIgDay.registered /\ illarionBirthTime = 0
    /\ clocks.unix = 30000 /\ ~clocks.isdst
    /\ updateIgDay.boundary = 57600 /\ updateIgDay.fire = clocks.steady + 27600

\* The visitor of the NPC pass is called for NPC n in this step.
NpcVisitOf(n) ==
    /\ pc = "loop" /\ CurPass = "npcs"
    /\ idx <= Len(iter) /\ iter[idx] = n
    /\ idx' = idx + 1

\* C18: an NPC leaves the population only as a lost NPC, never for being dead;
\* the visit of a dead NPC raises its hitpoints by MAXHPS, to the maximum,
\* credits no action points, runs no script cycle and leaves the NPC where it
\* is; and no step of the tick lowers hitpoints, so the NPC is alive at the
\* next pass unless it is killed again in between.
C18_DeadNpcRespawnsInPlace ==
    [][\A n \in NpcIds :
          /\ (n \in Npc /\ n \notin Npc') => n \in LostNpcs
          /\ (NpcVisitOf(n) /\ npc[n].hp <= 0) =>
                /\ npc'[n].hp = npc[n].hp + MAXHPS
                /\ npc'[n].hp = MAXHPS
                /\ npc'[n].ap = npc[n].ap
                /\ npc'[n].pos = npc[n].pos
                /\ n \in Npc'
                /\ lastNpcVisit'.acts \cap {"credit", "nextCycle"} = {}
          /\ npc'[n].hp < npc[n].hp => pc = "idle"]_vars

\* An NPC that was killed after the first tick has been visited by the NPC pass
\* of the second: it is alive again, and still of the population.
C18_Witness ==
    \E n \in Npc :
       /\ ticks = 2
       /\ lastNpcVisit.id = n /\ "revive" \in lastNpcVisit.acts
       /\ npc[n].hp = MAXHPS
       /\ npc[n].ap > 0

\* The NPC pass of the current invocation has begun.
NpcPassBegun == "npcs" \in Range(passLog)

\* C19 as stated: the decrement of ap in the monster pass is felt by the
\* monsters only; the NPC pass of the same tick credits the ap the tick driver
\* computed, which is what the players received.
C19_NpcsGetDriverAp ==
    NpcPassBegun => npcAp = tickAp

\* The ap less 1 when it is more than 1.
OneLess(a) == IF a > 1 THEN a - 1 ELSE a

\* C19, amended: ap is one variable of the world, so the decrement of the
\* monster pass (by 1 when ap > 1) stays in force for the NPC pass of the same
\* tick: the players are credited the ap the tick driver computed, the
\* monsters and the NPCs that ap less 1 when it is more than 1.
C19_NpcsGetDecrementedAp ==
    /\ [](NpcPassBegun => npcAp = OneLess(tickAp))
    /\ [][/\ \A n \in NpcIds :
                (NpcVisitOf(n) /\ npc[n].hp > 0)
                => npc'[n].ap = IncreasePoints(npc[n].ap, OneLess(tickAp))
          /\ \A m \in MonsterIds :
                (VisitOf(m) /\ monster[m].alive)
                => monster'[m].ap \in
                      {IncreasePoints(IncreasePoints(monster[m].ap, OneLess(tickAp)), d)
                          : d \in {0, -NP_WALK_COST}}
          /\ \A p \in PlayerIds :
                (p \in credited' \ credited)
                => player'[p].ap = IncreasePoints(player[p].ap, tickAp)]_vars

\* After a stall the tick driver has computed ap = 2: the player has been
\* credited 2 and a live NPC 1.
C19_Witness ==
    \E n \in Npc :
       /\ tickAp = 2 /\ npcAp = 1
       /\ lastNpcVisit.id = n /\ "credit" \in lastNpcVisit.acts
       /\ npc[n].ap = 1
       /\ player[1].ap = 2

\* A live monster with no player within MAX_ACT_RANGE and not on a route.
LeftAlone(m) ==
    /\ monster[m].alive
    /\ \A p \in Players : Dist(player[p].pos, monster[m].pos) > MAX_ACT_RANGE
    /\ ~monster[m].onRoute

\* C20 as stated: a live monster with no player within MAX_ACT_RANGE and not
\* on a route is skipped by the monster pass before anything is credited: its
\* AP, FP, position and target memory are as they were.
C20_UnobservedMonsterUntouched ==
    [][\A m \in MonsterIds :
          (VisitOf(m) /\ LeftAlone(m)) => monster'[m] = monster[m]]_vars

\* C20, amended: such a monster is credited the action and fight points of the
\* tick (and its effects are checked) before the early return, and nothing
\* else: it does not search, turn, attack, step, heal or wander, no hook of its
\* script is called, and its position, its route flag and its target memory
\* are as they were.
C20_UnobservedMonsterOnlyCredited ==
    [][\A m \in MonsterIds :
          (VisitOf(m) /\ LeftAlone(m)) =>
             /\ monster'[m] = [monster[m] EXCEPT !.ap = IncreasePoints(@, ap),
                                                !.fp = IncreasePoints(@, ap)]
             /\ "credit" \in lastVisit'.acts
             /\ lastVisit'.acts \subseteq {"credit", "canAct", "asleep"}]_vars

\* A monster four fields from the player, remembering a target, has been
\* visited: it has been credited and has taken the early return.
C20_Witness ==
    \E m \in Monsters :
       /\ lastVisit.id = m /\ "asleep" \in lastVisit.acts
       /\ Dist(player[1].pos, monster[m].pos) = MAX_ACT_RANGE + 1
       /\ monster[m].lastTargetSeen
       /\ monster[m].ap = 1 /\ monster[m].fp = 1

\* The entry a type would have if its definition existed with no script attached.
Scriptless(def) == [def EXCEPT !.exists = TRUE, !.script = FALSE]

\* The hooks of a monster's script.
ScriptHooks == {"enemyNear", "enemyOnSight", "abortRoute", "onSpawn", "nearTrue", "sightTrue"}

\* What the visit of monster m in this step did is something the not-on-route
\* branch can do for the same monster under the definition def.
VisitPossibleUnder(m, def) ==
    LET paid == [monster[m] EXCEPT !.ap = IncreasePoints(@, ap),
                                       !.fp = IncreasePoints(@, ap)]
    IN \E canAttack \in BOOLEAN :
          \E o \in NotOnRouteOutcomes(paid, def, canAttack) :
             /\ o.mon = monster'[m]
             /\ o.acts \cup {"credit", "canAct"} = lastVisit'.acts

\* Monster m, of a type that is not in the definition table, is visited in this
\* step, is awake and is not on a route.
UndefinedVisit(m) ==
    /\ VisitOf(m)
    /\ monster[m].alive /\ ~monster[m].onRoute
    /\ ~MonsterDescriptions[monster[m].mtype].exists
    /\ Acted(lastVisit')

\* C21: the visit of a monster whose type has no entry in the definition table,
\* in the not-on-route branch, does what the visit of the same monster could
\* do if its definition existed with no script attached (the same attack, step
\* toward the target, step toward the remembered position and wander), and
\* calls no hook of a script.
C21_UndefinedActsAsScriptless ==
    [][\A m \in Monsters :
          UndefinedVisit(m) =>
             /\ VisitPossibleUnder(m, Scriptless(MonsterDescriptions[monster[m].mtype]))
             /\ lastVisit'.acts \cap ScriptHooks = {}]_vars

\* What does hold of such a visit: no hook is called, and unless a target in
\* view was chosen (line 345) the visit is one the scriptless definition allows.
UndefinedDiffersOnlyInPursuit ==
    [][\A m \in Monsters :
          UndefinedVisit(m) =>
             /\ lastVisit'.acts \cap ScriptHooks = {}
             /\ "step" \notin lastVisit'.acts
             /\ "targetChar" \notin lastVisit'.acts =>
                   VisitPossibleUnder(m, Scriptless(MonsterDescriptions[monster[m].mtype]))]_vars

\* A monster without a definition has chosen the player two fields away as its
\* target and has wandered instead of stepping towards it.
UndefinedWandersInSight ==
    \E m \in Monsters :
       /\ lastVisit.id = m /\ {"targetChar", "wander"} \subseteq lastVisit.acts
       /\ ~MonsterDescriptions[monster[m].mtype].exists
       /\ monster[m].lastTargetPosition = player[1].pos

\* The monster objects the world holds: the population and the buffer.
HeldMonsters == Monsters \cup Range(newMonsters)

\* The back-pointer of monster m is null or points to a spawn point that is in
\* SpawnList now (not to one of an earlier load, which clear() has destroyed).
SpawnPointerLive(m) ==
    monster[m].spawn # 0 =>
       /\ monster[m].spawn \in SpawnList
       /\ spawnBorn[m] = spawnEpoch

\* C22: at every point of every sequence of ticks, reloads of the spawn points
\* and insertions of monsters, each monster of the population or of the
\* newMonsters buffer whose spawn back-pointer is set points to a spawn point
\* that is in SpawnList; and when initRespawns clears SpawnList, it has cleared
\* the back-pointer of every monster the world holds.
C22_SpawnPointersLive ==
    /\ [](\A m \in HeldMonsters : SpawnPointerLive(m))
    /\ [][spawnEpoch' # spawnEpoch =>
             \A m \in HeldMonsters : monster[m].spawn = 0]_vars

\* After a reload, a spawn point of the second load has created a monster that
\* is in the buffer, while a monster of the first load, its back-pointer
\* cleared and removed, is still in the population.
C22_Witness ==
    /\ spawnEpoch = 1 /\ pc = "loop"
    /\ \E m \in Range(newMonsters) : monster[m].spawn \in SpawnList /\ spawnBorn[m] = 1
    /\ \E m \in Monsters : monster[m].spawn = 0 /\ ~monster[m].alive /\ spawnBorn[m] = 0

\* The movement actions of a visit: performStep toward a target or toward the
\* remembered position, a random move, a move along the route.
Movements(v) == v.acts \cap {"step", "stepToLast", "wander", "route"}

\* C23: in the visit of a live monster at most one movement action is
\* performed, and the monster moves by at most one field and only by such an
\* action; when has_attacked is set (a target in range was chosen and the
\* monster cannot fight, or characterAttacks reported an attack) the visit
\* performs no step, no random move and no heal, and the monster stays where
\* it is with the action points the tick credited; the action points are less
\* than the credit exactly when a random move is made.
C23_OneMoveNoneAfterAttack ==
    [][\A m \in Monsters :
          (VisitOf(m) /\ monster[m].alive) =>
             LET v == lastVisit'
                 before == monster[m]
                 after == monster'[m]
                 paid == IncreasePoints(before.ap, ap)
             IN /\ Cardinality(Movements(v)) <= 1
                /\ Dist(before.pos, after.pos) <= 1
                /\ after.pos # before.pos => Movements(v) # {}
                /\ "has_attacked" \in v.acts =>
                      /\ Movements(v) = {} /\ "heal" \notin v.acts
                      /\ after.pos = before.pos
                      /\ after.ap = paid
                /\ after.ap < paid <=> "wander" \in v.acts
                /\ after.ap # paid => after.ap = paid - 1]_vars

\* A monster beside the player has chosen it as its target and has attacked:
\* it stands where it stood, with the action point of the tick.
C23_Witness ==
    \E m \in Monsters :
       /\ lastVisit.id = m /\ {"attack", "has_attacked"} \subseteq lastVisit.acts
       /\ Dist(monster[m].pos, player[1].pos) = 1
       /\ monster[m].enemy = <<"player", 1>>
       /\ monster[m].ap = 1

\* A monster near the player has made a random move and has paid for it.
C23_WanderWitness ==
    \E m \in Monsters :
       /\ lastVisit.id = m /\ "wander" \in lastVisit.acts
       /\ lastVisit.from # monster[m].pos
       /\ monster[m].ap = 0

\* The player pass has handed player p to the logout queue and has erased it
\* from the population.
LoggedOut(p) == p \notin Players /\ p \in Range(logOutPlayers)

\* The simulation thread performs the test of line 177 in this step.
TestsOnline == pcCmd = "online" /\ pcCmd' # "online"

\* C24: checkPlayerImmediateCommands never calls workoutCommands on a player
\* that the player pass has handed to the logout queue and erased from the
\* population: workoutCommands runs on members of the population only, and a
\* handle of a logged-out player, queued before the logout or pushed after it,
\* is popped, fails the test of its connection and is dropped: the call goes on
\* to lock again, and the handle is not put back.
C24_NoWorkForLoggedOut ==
    /\ [](pcCmd = "workoutCommands" => cmdPlayer \in Players /\ ~LoggedOut(cmdPlayer))
    /\ [][(TestsOnline /\ LoggedOut(cmdPlayer)) =>
             /\ pcCmd' = "relock"
             /\ workLog' = Append(workLog, [h |-> cmdPlayer, online |-> FALSE,
                                            invoked |-> FALSE])
             /\ immediatePlayerCommands' = immediatePlayerCommands]_vars

\* The tick has run, and the handle pushed last, of a player that is logged
\* out, has been popped and has failed the test: nothing was worked out for it.
C24_Witness ==
    /\ pcCmd = "relock" /\ LoggedOut(cmdPlayer)
    /\ Len(pushed) = MaxPushes /\ pushed[MaxPushes] = cmdPlayer
    /\ Len(popLog) = MaxPushes
    /\ workLog[Len(workLog)] = [h |-> cmdPlayer, online |-> FALSE, invoked |-> FALSE]
    /\ ticks = 1


\* A network thread is about to push the handle of a player that is logged out.
C24_LatePush ==
    \E t \in NetThreads : pcAdd[t] = "push" /\ LoggedOut(t)

====
